---- MODULE Spec2Model ----
(***************************************************************************)
(* Verification model of the AI Trade Journal worker: the usage rate       *)
(* limiter over the D1 `usage` table and the Notion batch writers.         *)
(* The repository holds two generations of the worker.  Generation 1 is    *)
(* the router of routes/license.js:308 with checkRateLimit(licenseKey,     *)
(* env) and trackTokenUsage; generation 2 is routes/claude.js with         *)
(* checkRateLimit(licenseKey, operationType, env) and incrementUsage.      *)
(* Each generation is a specification of its own over the same table.      *)
(***************************************************************************)
EXTENDS Integers, Sequences, FiniteSets, TLC

\* ------------------------------------------------------------------ bounds
NumWorkers == 2
MaxCalls == 12
MaxTokens == 6
MaxRequests == 4

\* ------------------------------------------------------- program constants
DAILY_LIMIT == 10
MONTHLY_LIMIT == 200

\* Dates are ISO strings in the code, compared as strings; here a date
\* YYYY-MM-DD is the number MM*100 + DD, which orders the same way.
Today == 1121
PrevMonthDay == 1031

VARIABLES
  usage,         \* the usage table of one license key: date -> row
  pc,            \* where each request is
  monthlyUsage,  \* checkRateLimit's monthlyUsage.total, NULL before the read
  changes,       \* checkRateLimit's result.meta.changes, NULL before the upsert
  result,        \* what the last rate-limit check of the worker returned
  opType,        \* generation 2: operationType of the request
  dailyRow,      \* generation 2: dailyAnalysisCount as read
  nCalls,        \* rate-limit checks started
  nAllowed,      \* checks that returned allowed: true
  nDeniedDaily,  \* checks that returned a daily denial
  storeFailed,   \* some store call of a rate-limit check has thrown
  threw          \* a store call of the worker's current check threw

limiterVars == <<usage, pc, monthlyUsage, changes, result, opType, dailyRow,
                 nCalls, nAllowed, nDeniedDaily, storeFailed, threw>>

VARIABLES
  trades,        \* body.trades: each item a trade object or null
  remote,        \* the answers the Notion API gives in this run
  wpc,           \* where the batch writer is
  i,             \* the loop index
  attempt,       \* notionFetch's attempt
  delay,         \* the backoff delay being slept, 0 when not sleeping
  results,       \* indices pushed to results, in order
  errors,        \* indices pushed to errors, in order
  fetches,       \* fetch calls made for item i
  sleeps,        \* backoff sleeps taken for item i
  onlyRetryable, \* every answer for item i so far was a 429 or a 5xx
  lastStatus,    \* status of the last answer for item i, NULL before one
  totalFetches,  \* fetch calls made for the batch
  attempted      \* indices a fetch was issued for

writerVars == <<trades, remote, wpc, i, attempt, delay, results, errors,
                fetches, sleeps, onlyRetryable, lastStatus, totalFetches,
                attempted>>

VARIABLES
  req,           \* the request being authenticated: path and headers, body
  env,           \* the worker's bindings: DB, LICENSE_SIGNING_SECRET
  apc,           \* where the authentication of the request is
  verdict,       \* the reason code returned, "valid", or "none" before
  queries,       \* store queries issued for the request
  storeThrew,    \* the store query of the request threw
  xorSteps       \* positions the signature comparison went through

authVars == <<req, env, apc, verdict, queries, storeThrew, xorSteps>>

VARIABLES
  claude,        \* the Claude response a handler got: content and usage
  hasDB,         \* env.DB is bound
  hpc,           \* where the handler is after the Claude response
  response,      \* the response the handler returned, NoResponse before
  trackThrew     \* the store write of the token accounting threw

trackVars == <<claude, hasDB, hpc, response, trackThrew>>

VARIABLES
  rows,          \* the usage table: a set of rows with id, license_key, date
  nextId,        \* the next AUTOINCREMENT id of the usage table
  tpc,           \* where each /claude/ request is in its store statements
  tReq,          \* the license key and date of each request
  uniqueErrors,  \* statements that failed on UNIQUE(license_key, date)
  tCalls         \* requests started against the usage table

tableVars == <<rows, nextId, tpc, tReq, uniqueErrors, tCalls>>

VARIABLES
  licenses,      \* the licenses table: key -> status, activated_at, user
  lpc,           \* where each activation request is
  lReq,          \* the body of each activation request
  lResp,         \* the response of each activation request
  lClock,        \* the store's clock: CURRENT_TIMESTAMP
  lCalls         \* activation requests started

licVars == <<licenses, lpc, lReq, lResp, lClock, lCalls>>

VARIABLES
  oauth_states,       \* the oauth_states table: rows state, license_key, old
  notion_connections, \* the notion_connections table: license_key -> token
  opc,                \* where each OAuth request is
  oReq,               \* the query of each callback: code, state, error
  oKey,               \* licenseKey of each callback, NULL before the lookup
  oResp,              \* the response of each OAuth request
  exchanges,          \* state token -> code exchanges made with it
  oCalls              \* OAuth requests started

oauthVars == <<oauth_states, notion_connections, opc, oReq, oKey, oResp,
               exchanges, oCalls>>

storeVars == <<tableVars, licVars, oauthVars>>

VARIABLES
  signal         \* the abort timer of the fetch in flight, NULL without one

netVars == <<signal>>

vars == <<limiterVars, writerVars, authVars, trackVars, storeVars, netVars>>

Workers == 1..NumWorkers

NoRow == [present |-> FALSE]
NULL == -1

Row(a, p, ti, to) ==
  [present |-> TRUE, analysis_count |-> a, parse_count |-> p,
   token_input |-> ti, token_output |-> to]

\* today.substring(0, 7) + '-01'
MonthStart(today) == (today \div 100) * 100 + 1

Dates == {PrevMonthDay} \cup (MonthStart(Today)..Today)

RECURSIVE SumAnalysis(_, _)
SumAnalysis(u, S) ==
  IF S = {} THEN 0
  ELSE LET d == CHOOSE x \in S : TRUE
       IN u[d].analysis_count + SumAnalysis(u, S \ {d})

\* The rows SELECT ... WHERE license_key = ? AND date >= ? ranges over.
MonthRows(u, monthStart) == {d \in Dates : u[d].present /\ d >= monthStart}

\* SELECT SUM(analysis_count): NULL over no rows.
SumOrNull(u, monthStart) ==
  IF MonthRows(u, monthStart) = {} THEN NULL
  ELSE SumAnalysis(u, MonthRows(u, monthStart))

\* SELECT COALESCE(SUM(analysis_count), 0)
SumCoalesce(u, monthStart) == SumAnalysis(u, MonthRows(u, monthStart))

\* Earlier days of the month as the limiter leaves them: `full` days at the
\* daily ceiling, then one day at `partial`; the previous month's last day
\* is at the ceiling too.
SeedUsage(full, partial) ==
  [d \in Dates |->
     IF d = PrevMonthDay THEN Row(DAILY_LIMIT, 0, 0, 0)
     ELSE IF d = Today THEN NoRow
     ELSE IF d - MonthStart(Today) < full THEN Row(DAILY_LIMIT, 0, 0, 0)
     ELSE IF d - MonthStart(Today) = full /\ partial > 0 THEN Row(partial, 0, 0, 0)
     ELSE NoRow]

Seeds == {<<0, 0>>, <<18, 9>>, <<19, 0>>, <<19, 9>>, <<20, 0>>}

\* No batch is being written.
WriterIdle ==
  /\ trades = <<>>
  /\ remote = {}
  /\ wpc = "done"
  /\ i = 0
  /\ attempt = 0
  /\ delay = 0
  /\ results = <<>>
  /\ errors = <<>>
  /\ fetches = 0
  /\ sleeps = 0
  /\ onlyRetryable = TRUE
  /\ lastStatus = NULL
  /\ totalFetches = 0
  /\ attempted = {}

\* No request is being authenticated.
AuthIdle ==
  /\ req = [path |-> "", key |-> <<>>, ts |-> -1, sig |-> <<>>, body |-> <<>>]
  /\ env = [DB |-> TRUE, LICENSE_SIGNING_SECRET |-> <<>>]
  /\ apc = "done"
  /\ verdict = "none"
  /\ queries = 0
  /\ storeThrew = FALSE
  /\ xorSteps = 0

NoResponse == [status |-> 0, body |-> "none"]

\* No handler is past its Claude call.
TrackIdle ==
  /\ claude = [content |-> "none", input_tokens |-> 0, output_tokens |-> 0]
  /\ hasDB = TRUE
  /\ hpc = "idle"
  /\ response = NoResponse
  /\ trackThrew = FALSE

\* No request is at the usage table, which is empty.
TableIdle ==
  /\ rows = {}
  /\ nextId = 1
  /\ tpc = [w \in Workers |-> "idle"]
  /\ tReq = [w \in Workers |-> [license_key |-> "", date |-> 0]]
  /\ uniqueErrors = 0
  /\ tCalls = 0

NoActivation == [json |-> FALSE, key |-> <<>>, bound |-> <<>>]

\* No activation request is being served.
LicIdle ==
  /\ licenses = {}
  /\ lpc = [w \in Workers |-> "idle"]
  /\ lReq = [w \in Workers |-> NoActivation]
  /\ lResp = [w \in Workers |-> NoResponse]
  /\ lClock = 0
  /\ lCalls = 0

NoCallback == [code |-> "", state |-> NULL, error |-> ""]

\* No OAuth request is being served.
OAuthIdle ==
  /\ oauth_states = {}
  /\ notion_connections = {}
  /\ opc = [w \in Workers |-> "idle"]
  /\ oReq = [w \in Workers |-> NoCallback]
  /\ oKey = [w \in Workers |-> ""]
  /\ oResp = [w \in Workers |-> "none"]
  /\ exchanges = <<>>
  /\ oCalls = 0

StoresIdle == TableIdle /\ LicIdle /\ OAuthIdle

\* No fetch is in flight.
NetIdle == signal = NULL

Init ==
  /\ StoresIdle
  /\ NetIdle
  /\ WriterIdle
  /\ AuthIdle
  /\ TrackIdle
  /\ \E s \in Seeds : usage = SeedUsage(s[1], s[2])
  /\ pc = [w \in Workers |-> "idle"]
  /\ monthlyUsage = [w \in Workers |-> NULL]
  /\ changes = [w \in Workers |-> NULL]
  /\ result = [w \in Workers |-> "none"]
  /\ opType = [w \in Workers |-> "none"]
  /\ dailyRow = [w \in Workers |-> NULL]
  /\ nCalls = 0
  /\ nAllowed = 0
  /\ nDeniedDaily = 0
  /\ storeFailed = FALSE
  /\ threw = [w \in Workers |-> FALSE]

\* ---------------------------------------------------------------- SQL
\* INSERT INTO usage (..., analysis_count, token_input, token_output)
\* VALUES (?, ?, 1, 0, 0) ON CONFLICT(license_key, date) DO UPDATE SET
\* analysis_count = analysis_count + 1 WHERE analysis_count < ?
\* One statement: the new table and meta.changes.
UpsertUnconditional(u, today, limit) ==
  IF ~u[today].present
  THEN [usage |-> [u EXCEPT ![today] = Row(1, 0, 0, 0)], changes |-> 1]
  ELSE [usage |-> [u EXCEPT ![today].analysis_count = @ + 1], changes |-> 1]

\* An upsert that still counts the request it denies.
UpsertCountsDenied(u, today, limit) ==
  IF ~u[today].present
  THEN [usage |-> [u EXCEPT ![today] = Row(1, 0, 0, 0)], changes |-> 1]
  ELSE IF u[today].analysis_count < limit
  THEN [usage |-> [u EXCEPT ![today].analysis_count = @ + 1], changes |-> 1]
  ELSE [usage |-> [u EXCEPT ![today].analysis_count = @ + 1], changes |-> 0]

AtomicUpsert(u, today, limit) ==
  IF ~u[today].present
  THEN [usage |-> [u EXCEPT ![today] = Row(1, 0, 0, 0)], changes |-> 1]
  ELSE IF u[today].analysis_count < limit
  THEN [usage |-> [u EXCEPT ![today].analysis_count = @ + 1], changes |-> 1]
  ELSE [usage |-> u, changes |-> 0]

\* A token write that replaces the day's row (INSERT OR REPLACE).
TokenReplace(u, today, ti, to) == [u EXCEPT ![today] = Row(0, 0, ti, to)]

\* INSERT ... VALUES (?, ?, 0, ?, ?) ON CONFLICT(license_key, date)
\* DO UPDATE SET token_input = token_input + ?, token_output = token_output + ?
TokenUpsert(u, today, ti, to) ==
  IF ~u[today].present
  THEN [u EXCEPT ![today] = Row(0, 0, ti, to)]
  ELSE [u EXCEPT ![today].token_input = @ + ti, ![today].token_output = @ + to]

\* monthlyUsage && monthlyUsage.total >= MONTHLY_LIMIT  (null >= 200 is false)
MonthlyLimitStrict(total) == total # NULL /\ total > MONTHLY_LIMIT

MonthlyLimitReached(total) == total # NULL /\ total >= MONTHLY_LIMIT

\* claudeResponse.usage: (input_tokens || 0, output_tokens || 0).  The table's
\* token totals are kept within MaxTokens.
TokenUsages(u) ==
  {t \in {<<0, 0>>, <<3, 2>>} :
     \/ ~u[Today].present
     \/ /\ u[Today].token_input + t[1] <= MaxTokens
        /\ u[Today].token_output + t[2] <= MaxTokens}

\* ------------------------------------------- generation 1: checkRateLimit
\* The router calls checkRateLimit(request.licenseKey, env) for a /claude/
\* path.  The D1 binding env.DB is taken as configured.
Request(w) ==
  /\ pc[w] = "idle"
  /\ nCalls < MaxCalls
  /\ nCalls' = nCalls + 1
  /\ pc' = [pc EXCEPT ![w] = "monthly"]
  /\ monthlyUsage' = [monthlyUsage EXCEPT ![w] = NULL]
  /\ changes' = [changes EXCEPT ![w] = NULL]
  /\ result' = [result EXCEPT ![w] = "none"]
  /\ threw' = [threw EXCEPT ![w] = FALSE]
  /\ UNCHANGED <<usage, opType, dailyRow, nAllowed, nDeniedDaily, storeFailed>>
  /\ UNCHANGED <<writerVars, authVars, trackVars, storeVars, netVars>>

\* if (!licenseKey) return { allowed: false, message: 'MISSING_LICENSE_KEY' }
RequestNoKey(w) ==
  /\ pc[w] = "idle"
  /\ result[w] # "MISSING_LICENSE_KEY"
  /\ result' = [result EXCEPT ![w] = "MISSING_LICENSE_KEY"]
  /\ monthlyUsage' = [monthlyUsage EXCEPT ![w] = NULL]
  /\ changes' = [changes EXCEPT ![w] = NULL]
  /\ threw' = [threw EXCEPT ![w] = FALSE]
  /\ UNCHANGED <<usage, pc, opType, dailyRow, nCalls, nAllowed, nDeniedDaily,
                 storeFailed>>
  /\ UNCHANGED <<writerVars, authVars, trackVars, storeVars, netVars>>

\* The SUM query answers.
MonthlyCheck(w) ==
  /\ pc[w] = "monthly"
  /\ LET total == SumOrNull(usage, MonthStart(Today)) IN
     /\ monthlyUsage' = [monthlyUsage EXCEPT ![w] = total]
     /\ IF MonthlyLimitReached(total)
        THEN /\ result' = [result EXCEPT ![w] = "MONTHLY_LIMIT_REACHED"]
             /\ pc' = [pc EXCEPT ![w] = "idle"]
        ELSE /\ pc' = [pc EXCEPT ![w] = "upsert"]
             /\ UNCHANGED result
  /\ UNCHANGED <<usage, changes, opType, dailyRow, nCalls, nAllowed,
                 nDeniedDaily, storeFailed, threw>>
  /\ UNCHANGED <<writerVars, authVars, trackVars, storeVars, netVars>>

\* The upsert answers.
DailyUpsert(w) ==
  /\ pc[w] = "upsert"
  /\ LET r == AtomicUpsert(usage, Today, DAILY_LIMIT) IN
     /\ usage' = r.usage
     /\ changes' = [changes EXCEPT ![w] = r.changes]
     /\ IF r.changes = 0
        THEN /\ result' = [result EXCEPT ![w] = "DAILY_LIMIT_REACHED"]
             /\ nDeniedDaily' = nDeniedDaily + 1
             /\ pc' = [pc EXCEPT ![w] = "idle"]
             /\ UNCHANGED nAllowed
        ELSE /\ result' = [result EXCEPT ![w] = "allowed"]
             /\ nAllowed' = nAllowed + 1
             /\ pc' = [pc EXCEPT ![w] = "handler"]
             /\ UNCHANGED nDeniedDaily
  /\ monthlyUsage' = [monthlyUsage EXCEPT ![w] = NULL]
  /\ UNCHANGED <<opType, dailyRow, nCalls, storeFailed, threw>>
  /\ UNCHANGED <<writerVars, authVars, trackVars, storeVars, netVars>>

\* catch { return { allowed: true } }: either store call threw.
CheckThrows(w) ==
  /\ pc[w] \in {"monthly", "upsert"}
  /\ result' = [result EXCEPT ![w] = "allowed"]
  /\ nAllowed' = nAllowed + 1
  /\ storeFailed' = TRUE
  /\ threw' = [threw EXCEPT ![w] = TRUE]
  /\ pc' = [pc EXCEPT ![w] = "handler"]
  /\ monthlyUsage' = [monthlyUsage EXCEPT ![w] = NULL]
  /\ UNCHANGED <<usage, changes, opType, dailyRow, nCalls, nDeniedDaily>>
  /\ UNCHANGED <<writerVars, authVars, trackVars, storeVars, netVars>>

\* handleParse / handleAnalyze up to the Claude response: it either returns
\* early (bad input, Claude error, timeout) or reaches trackTokenUsage.
HandlerReturnsEarly(w) ==
  /\ pc[w] = "handler"
  /\ pc' = [pc EXCEPT ![w] = "idle"]
  /\ UNCHANGED <<usage, monthlyUsage, changes, result, opType, dailyRow,
                 nCalls, nAllowed, nDeniedDaily, storeFailed, threw>>
  /\ UNCHANGED <<writerVars, authVars, trackVars, storeVars, netVars>>

\* trackTokenUsage(request.licenseKey, env, usage of the Claude response)
trackTokenUsage(w) ==
  /\ pc[w] = "handler"
  /\ \E t \in TokenUsages(usage) : usage' = TokenUpsert(usage, Today, t[1], t[2])
  /\ pc' = [pc EXCEPT ![w] = "idle"]
  /\ UNCHANGED <<monthlyUsage, changes, result, opType, dailyRow,
                 nCalls, nAllowed, nDeniedDaily, storeFailed, threw>>
  /\ UNCHANGED <<writerVars, authVars, trackVars, storeVars, netVars>>

\* catch { /* Usage tracking failure is non-fatal */ }
trackTokenUsageThrows(w) ==
  /\ pc[w] = "handler"
  /\ pc' = [pc EXCEPT ![w] = "idle"]
  /\ UNCHANGED <<usage, monthlyUsage, changes, result, opType, dailyRow,
                 nCalls, nAllowed, nDeniedDaily, storeFailed, threw>>
  /\ UNCHANGED <<writerVars, authVars, trackVars, storeVars, netVars>>

NextLimiter ==
  \E w \in Workers :
    \/ Request(w)
    \/ RequestNoKey(w)
    \/ MonthlyCheck(w)
    \/ DailyUpsert(w)
    \/ CheckThrows(w)
    \/ HandlerReturnsEarly(w)
    \/ trackTokenUsage(w)
    \/ trackTokenUsageThrows(w)

SpecLimiter == Init /\ [][NextLimiter]_vars

\* ------------------------------------------- generation 2: checkRateLimit
\* parseInt(env.DAILY_ANALYSIS_LIMIT || '10', 10)
dailyLimit == 10
\* parseInt(env.MONTHLY_ANALYSIS_LIMIT || '200', 10)
monthlyLimit == 200

\* analyzeTrades / parseTrades reach checkRateLimit(licenseKey, operationType, env)
RequestB(w) ==
  /\ pc[w] = "idle"
  /\ nCalls < MaxRequests
  /\ nCalls' = nCalls + 1
  /\ \E op \in {"analysis", "parse"} : opType' = [opType EXCEPT ![w] = op]
  /\ pc' = [pc EXCEPT ![w] = "dailyB"]
  /\ dailyRow' = [dailyRow EXCEPT ![w] = NULL]
  /\ monthlyUsage' = [monthlyUsage EXCEPT ![w] = NULL]
  /\ result' = [result EXCEPT ![w] = "none"]
  /\ threw' = [threw EXCEPT ![w] = FALSE]
  /\ UNCHANGED <<usage, changes, nAllowed, nDeniedDaily, storeFailed>>
  /\ UNCHANGED <<writerVars, authVars, trackVars, storeVars, netVars>>

\* SELECT analysis_count, parse_count ... WHERE date = today, then the daily test
DailyReadB(w) ==
  /\ pc[w] = "dailyB"
  /\ LET dailyAnalysisCount ==
           IF usage[Today].present THEN usage[Today].analysis_count ELSE 0 IN
     /\ dailyRow' = [dailyRow EXCEPT ![w] = dailyAnalysisCount]
     /\ IF opType[w] = "analysis" /\ dailyAnalysisCount >= dailyLimit
        THEN /\ result' = [result EXCEPT ![w] = "daily"]
             /\ pc' = [pc EXCEPT ![w] = "idle"]
        ELSE IF opType[w] = "analysis"
        THEN /\ pc' = [pc EXCEPT ![w] = "monthlyB"]
             /\ UNCHANGED result
        ELSE /\ result' = [result EXCEPT ![w] = "allowed"]
             /\ pc' = [pc EXCEPT ![w] = "claudeB"]
  /\ UNCHANGED <<usage, monthlyUsage, changes, opType, nCalls, nAllowed,
                 nDeniedDaily, storeFailed, threw>>
  /\ UNCHANGED <<writerVars, authVars, trackVars, storeVars, netVars>>

\* SELECT COALESCE(SUM(analysis_count), 0) ..., then the monthly test
MonthlyReadB(w) ==
  /\ pc[w] = "monthlyB"
  /\ LET monthlyTotal == SumCoalesce(usage, MonthStart(Today)) IN
     /\ monthlyUsage' = [monthlyUsage EXCEPT ![w] = monthlyTotal]
     /\ IF monthlyTotal >= monthlyLimit
        THEN /\ result' = [result EXCEPT ![w] = "monthly"]
             /\ pc' = [pc EXCEPT ![w] = "idle"]
        ELSE /\ result' = [result EXCEPT ![w] = "allowed"]
             /\ pc' = [pc EXCEPT ![w] = "claudeB"]
  /\ UNCHANGED <<usage, changes, opType, dailyRow, nCalls, nAllowed,
                 nDeniedDaily, storeFailed, threw>>
  /\ UNCHANGED <<writerVars, authVars, trackVars, storeVars, netVars>>

\* catch (err) { return { error: { code: 'RATE_LIMIT_CHECK_ERROR', ... } } }
\* and the route answers 500.
CheckThrowsB(w) ==
  /\ pc[w] \in {"dailyB", "monthlyB"}
  /\ result' = [result EXCEPT ![w] = "RATE_LIMIT_CHECK_ERROR"]
  /\ storeFailed' = TRUE
  /\ threw' = [threw EXCEPT ![w] = TRUE]
  /\ pc' = [pc EXCEPT ![w] = "idle"]
  /\ UNCHANGED <<usage, monthlyUsage, changes, opType, dailyRow, nCalls,
                 nAllowed, nDeniedDaily>>
  /\ UNCHANGED <<writerVars, authVars, trackVars, storeVars, netVars>>

\* callClaude / extractJson threw: the route answers an error, no tracking.
ClaudeFailsB(w) ==
  /\ pc[w] = "claudeB"
  /\ pc' = [pc EXCEPT ![w] = "idle"]
  /\ UNCHANGED <<usage, monthlyUsage, changes, result, opType, dailyRow,
                 nCalls, nAllowed, nDeniedDaily, storeFailed, threw>>
  /\ UNCHANGED <<writerVars, authVars, trackVars, storeVars, netVars>>

\* ctx.waitUntil(incrementUsage(...)), first statement:
\* INSERT ... VALUES (?, ?, 0, 0, 0, 0) ON CONFLICT(license_key, date) DO NOTHING
InsertIfAbsent(u, today) ==
  IF u[today].present THEN u ELSE [u EXCEPT ![today] = Row(0, 0, 0, 0)]

\* UPDATE usage SET analysis_count = analysis_count + 1 (or parse_count),
\* token_input = token_input + ?, token_output = token_output + ?
UpdateUsage(u, today, op, ti, to) ==
  IF ~u[today].present THEN u
  ELSE IF op = "analysis"
  THEN [u EXCEPT ![today].analysis_count = @ + 1,
                 ![today].token_input = @ + ti, ![today].token_output = @ + to]
  ELSE [u EXCEPT ![today].parse_count = @ + 1,
                 ![today].token_input = @ + ti, ![today].token_output = @ + to]

incrementUsageInsert(w) ==
  /\ pc[w] = "claudeB"
  /\ usage' = InsertIfAbsent(usage, Today)
  /\ pc' = [pc EXCEPT ![w] = "updateB"]
  /\ UNCHANGED <<monthlyUsage, changes, result, opType, dailyRow,
                 nCalls, nAllowed, nDeniedDaily, storeFailed, threw>>
  /\ UNCHANGED <<writerVars, authVars, trackVars, storeVars, netVars>>

incrementUsageUpdate(w) ==
  /\ pc[w] = "updateB"
  /\ \E t \in TokenUsages(usage) :
       usage' = UpdateUsage(usage, Today, opType[w], t[1], t[2])
  /\ pc' = [pc EXCEPT ![w] = "idle"]
  /\ UNCHANGED <<monthlyUsage, changes, result, opType, dailyRow,
                 nCalls, nAllowed, nDeniedDaily, storeFailed, threw>>
  /\ UNCHANGED <<writerVars, authVars, trackVars, storeVars, netVars>>

\* catch (err) { console.error('Failed to increment usage:', ...) }
incrementUsageThrows(w) ==
  /\ pc[w] \in {"claudeB", "updateB"}
  /\ pc' = [pc EXCEPT ![w] = "idle"]
  /\ UNCHANGED <<usage, monthlyUsage, changes, result, opType, dailyRow,
                 nCalls, nAllowed, nDeniedDaily, storeFailed, threw>>
  /\ UNCHANGED <<writerVars, authVars, trackVars, storeVars, netVars>>

NextUsage ==
  \E w \in Workers :
    \/ RequestB(w)
    \/ DailyReadB(w)
    \/ MonthlyReadB(w)
    \/ CheckThrowsB(w)
    \/ ClaudeFailsB(w)
    \/ incrementUsageInsert(w)
    \/ incrementUsageUpdate(w)
    \/ incrementUsageThrows(w)

\* Generation 2 starts on a day with no analyses yet or with nine made.
InitUsage ==
  /\ StoresIdle
  /\ NetIdle
  /\ TrackIdle
  /\ AuthIdle
  /\ WriterIdle
  /\ \E s \in Seeds : \E c \in {NULL, dailyLimit - 1} :
       usage = [SeedUsage(s[1], s[2]) EXCEPT
                  ![Today] = IF c = NULL THEN NoRow ELSE Row(c, 0, 0, 0)]
  /\ pc = [w \in Workers |-> "idle"]
  /\ monthlyUsage = [w \in Workers |-> NULL]
  /\ changes = [w \in Workers |-> NULL]
  /\ result = [w \in Workers |-> "none"]
  /\ opType = [w \in Workers |-> "none"]
  /\ dailyRow = [w \in Workers |-> NULL]
  /\ nCalls = 0
  /\ nAllowed = 0
  /\ nDeniedDaily = 0
  /\ storeFailed = FALSE
  /\ threw = [w \in Workers |-> FALSE]

SpecUsage == InitUsage /\ [][NextUsage]_vars

\* ------------------------------------------------ rate limiter properties
TodayCount == IF usage[Today].present THEN usage[Today].analysis_count ELSE 0

MonthTotal == SumCoalesce(usage, MonthStart(Today))

Min(a, b) == IF a < b THEN a ELSE b

\* No rate-limit check is between its start and its return.
ChecksReturned == \A w \in Workers : pc[w] \notin {"monthly", "upsert"}

\* C1: with the store reachable and the month's total below the monthly
\* ceiling, once the N checks started on a day have returned, exactly
\* min(N, DAILY_LIMIT) of them were allowed, the others were denied with
\* DAILY_LIMIT_REACHED, and the day's count is min(N, DAILY_LIMIT); the count
\* is never above DAILY_LIMIT and equals the number of allowed checks at
\* every moment (no increment is lost).
C1_ExactlyMinAllowed ==
  /\ TodayCount <= DAILY_LIMIT
  /\ ~storeFailed => TodayCount = nAllowed
  /\ (ChecksReturned /\ ~storeFailed /\ MonthTotal < MONTHLY_LIMIT)
       => /\ nAllowed = Min(nCalls, DAILY_LIMIT)
          /\ nDeniedDaily = nCalls - Min(nCalls, DAILY_LIMIT)
          /\ TodayCount = Min(nCalls, DAILY_LIMIT)

\* Eleven checks returned: ten allowed, one denied for the day.
C1_Witness ==
  /\ ChecksReturned /\ ~storeFailed /\ MonthTotal < MONTHLY_LIMIT
  /\ nCalls = DAILY_LIMIT + 1
  /\ nAllowed = DAILY_LIMIT
  /\ nDeniedDaily = 1
  /\ \E w \in Workers : result[w] = "DAILY_LIMIT_REACHED" /\ changes[w] = 0

\* C2: no interleaving of requests through any path (the rate-limit check,
\* the usage increment after the call) raises the day's analysis_count above
\* the daily ceiling.
C2_CountNeverAboveCeiling == TodayCount <= dailyLimit

\* A step of the accounting that follows the Claude call: trackTokenUsage in
\* generation 1, incrementUsage's statements in generation 2.
AccountingStep ==
  \E w \in Workers :
    /\ pc[w] \in {"handler", "claudeB", "updateB"}
    /\ pc'[w] # pc[w]

\* C3: a step of the token accounting leaves the day's analysis_count as it
\* was, whatever the other requests are doing.
C3_AccountingKeepsCount == [][AccountingStep => TodayCount' = TodayCount]_vars

\* C4: a check that reads a month's total at or above MONTHLY_LIMIT returns
\* MONTHLY_LIMIT_REACHED without having issued the daily upsert; only a check
\* that read a total below the ceiling goes on to the upsert.
C4_MonthlyDeniedFirst ==
  \A w \in Workers :
    /\ pc[w] = "upsert" => monthlyUsage[w] < MONTHLY_LIMIT
    /\ monthlyUsage[w] >= MONTHLY_LIMIT
         => /\ result[w] = "MONTHLY_LIMIT_REACHED"
            /\ changes[w] = NULL
            /\ pc[w] = "idle"

\* A monthly denial on a day whose count is 0 or that has no row yet.
C4_Witness ==
  \E w \in Workers :
    /\ result[w] = "MONTHLY_LIMIT_REACHED"
    /\ monthlyUsage[w] >= MONTHLY_LIMIT
    /\ TodayCount = 0

\* C5: with the store reachable, the month's total of one license key never
\* exceeds the monthly ceiling.
C5_MonthNeverAboveCeiling == ~storeFailed => MonthTotal <= MONTHLY_LIMIT

\* C6: a rate-limit check one of whose store calls threw returns allowed.
C6_FailOpen == \A w \in Workers : threw[w] => result[w] = "allowed"

\* ------------------------------------------------ Notion batch writers
MaxBatch == 3

\* Retry config for 429/5xx errors
MAX_RETRIES == 3
BASE_DELAYS_MS == <<500, 1000, 2000>>
JITTER_RANGES_MS == <<200, 400, 800>>
BATCH_SEQUENTIAL_DELAY_MS == 340
\* useBatchDelay = trades.length >= 10
BATCH_DELAY_MIN == 10
\* trades.length > 100 is answered BATCH_TOO_LARGE
MAX_BATCH_SIZE == 100

\* An element of body.trades after JSON parsing: an object, or null.
TradeShapes == {"trade", "null"}

RECURSIVE SeqsOfLen(_, _)
SeqsOfLen(S, n) ==
  IF n = 0 THEN {<<>>}
  ELSE {Append(q, x) : q \in SeqsOfLen(S, n - 1), x \in S}

\* What one fetch of the Notion API comes to: status 0 is no response at all
\* (fetch threw); bodyOk tells whether the body parses as a JSON object (the
\* JSON literal null is not among the bodies considered).
STATUS_NONE == 0
Answers ==
  {[status |-> st, bodyOk |-> b] : st \in {STATUS_NONE, 200, 400, 429, 500},
                                   b \in BOOLEAN}

\* Answers without a retry: success and a client error.
PlainAnswers == {a \in Answers : a.status \in {200, 400} /\ a.bodyOk}

\* response.ok
ResponseOk(a) == a.status >= 200 /\ a.status <= 299

\* A retry rule that also retries every 4xx.
IsRetryableLoose(status) == status >= 400

\* status === 429 || status >= 500
IsRetryable(status) == status = 429 \/ status >= 500

\* A jitter that can come out as max itself.
randomJitterInclusive(max) == {0, max}

\* Math.floor(Math.random() * max): the two ends of 0 .. max - 1
randomJitter(max) == {0, max - 1}

\* BASE_DELAYS_MS[attempt] + randomJitter(JITTER_RANGES_MS[attempt])
BackoffDelays(att) ==
  {BASE_DELAYS_MS[att + 1] + j : j \in randomJitter(JITTER_RANGES_MS[att + 1])}

\* A push that records the index twice.
PushTwice(list, idx) == Append(Append(list, idx), idx)

\* results.push({ index: i, ... }) / errors.push({ index: i, ... })
Push(list, idx) == Append(list, idx)

\* A pacing rule that sleeps between the items of every batch of two or more.
useBatchDelayAlways(n) == n >= 2

\* const useBatchDelay = trades.length >= 10
useBatchDelay(n) == n >= BATCH_DELAY_MIN

\* A sync request passed its checks: small batches against any answers, and
\* one batch at the pacing threshold against answers that need no retry.
InitWriter ==
  /\ \/ /\ \E n \in 1..MaxBatch : trades \in SeqsOfLen(TradeShapes, n)
        /\ remote = Answers
     \/ /\ trades = [k \in 1..BATCH_DELAY_MIN |-> "trade"]
        /\ remote = PlainAnswers
  /\ Len(trades) >= 1 /\ Len(trades) <= MAX_BATCH_SIZE
  /\ wpc = "loop"
  /\ i = 0
  /\ attempt = 0
  /\ delay = 0
  /\ results = <<>>
  /\ errors = <<>>
  /\ fetches = 0
  /\ sleeps = 0
  /\ onlyRetryable = TRUE
  /\ lastStatus = NULL
  /\ totalFetches = 0
  /\ attempted = {}

\* No rate-limited request is in flight.
LimiterIdle ==
  /\ usage = SeedUsage(0, 0)
  /\ pc = [w \in Workers |-> "idle"]
  /\ monthlyUsage = [w \in Workers |-> NULL]
  /\ changes = [w \in Workers |-> NULL]
  /\ result = [w \in Workers |-> "none"]
  /\ opType = [w \in Workers |-> "none"]
  /\ dailyRow = [w \in Workers |-> NULL]
  /\ nCalls = 0
  /\ nAllowed = 0
  /\ nDeniedDaily = 0
  /\ storeFailed = FALSE
  /\ threw = [w \in Workers |-> FALSE]

InitSync ==
  LimiterIdle /\ AuthIdle /\ TrackIdle /\ StoresIdle /\ NetIdle /\ InitWriter

\* --------------------------------- generation 2: syncTrades / notionFetch
\* The options syncTrades passes to notionFetch for a page.
PageOptions == [method |-> "POST", body |-> "page"]

\* fetch(url, { ...options, headers })
FetchInit(options) ==
  [k \in DOMAIN options \cup {"headers"} |->
     IF k = "headers" THEN "Authorization" ELSE options[k]]

\* The abort timer a fetch is given: that of init.signal, NULL without one.
SignalOf(init) == IF "signal" \in DOMAIN init THEN init.signal ELSE NULL

\* A loop head that issues the write of item i and of the item after it
\* without awaiting the first.
TryItemAhead ==
  /\ wpc' = "inflight"
  /\ attempt' = 0
  /\ fetches' = 1
  /\ totalFetches' = totalFetches + 2
  /\ attempted' = attempted \cup {i, i + 1}
  /\ signal' = SignalOf(FetchInit(PageOptions))

\* The body of the try for item i, up to the first fetch.  A null trade makes
\* buildTradePagePayload throw a TypeError; the catch then reads trade.symbol
\* and throws again, out of the loop and of syncTrades; the router answers
\* 500 INTERNAL_ERROR.
TryItem ==
  IF trades[i + 1] = "null"
  THEN /\ wpc' = "threw"
       /\ UNCHANGED <<attempt, fetches, totalFetches, attempted, signal>>
  ELSE /\ wpc' = "inflight"
       /\ attempt' = 0
       /\ fetches' = 1
       /\ totalFetches' = totalFetches + 1
       /\ attempted' = attempted \cup {i}
       /\ signal' = SignalOf(FetchInit(PageOptions))

\* for (let i = 0; i < trades.length; i++), no pacing sleep due
BeginItem ==
  /\ wpc = "loop"
  /\ i < Len(trades)
  /\ ~(useBatchDelay(Len(trades)) /\ i > 0)
  /\ TryItem
  /\ UNCHANGED <<trades, remote, i, delay, results, errors, sleeps,
                 onlyRetryable, lastStatus>>
  /\ UNCHANGED <<limiterVars, authVars, trackVars, storeVars>>

\* if (useBatchDelay && i > 0) await sleep(BATCH_SEQUENTIAL_DELAY_MS)
BeginPace ==
  /\ wpc = "loop"
  /\ i < Len(trades)
  /\ useBatchDelay(Len(trades)) /\ i > 0
  /\ wpc' = "pace"
  /\ delay' = BATCH_SEQUENTIAL_DELAY_MS
  /\ UNCHANGED <<trades, remote, i, attempt, results, errors, fetches, sleeps,
                 onlyRetryable, lastStatus, totalFetches, attempted>>
  /\ UNCHANGED <<limiterVars, authVars, trackVars, storeVars, netVars>>

PaceEnds ==
  /\ wpc = "pace"
  /\ delay' = 0
  /\ TryItem
  /\ UNCHANGED <<trades, remote, i, results, errors, sleeps, onlyRetryable,
                 lastStatus>>
  /\ UNCHANGED <<limiterVars, authVars, trackVars, storeVars>>

\* notionFetch: the fetch in flight answers; the loop body runs on to the
\* backoff sleep or to the push that ends the item.
FetchReturns ==
  /\ wpc = "inflight"
  /\ \E a \in remote :
       /\ lastStatus' = a.status
       /\ onlyRetryable' = (onlyRetryable /\ IsRetryable(a.status))
       /\ IF ResponseOk(a) /\ a.bodyOk
          THEN \* return await response.json(); results.push
               /\ results' = Push(results, i)
               /\ wpc' = "next"
               /\ UNCHANGED <<errors, delay, sleeps>>
          ELSE IF /\ attempt < MAX_RETRIES
                  /\ \/ a.status = STATUS_NONE
                     \/ ResponseOk(a)
                     \/ IsRetryable(a.status)
          THEN \* await sleep(delay); continue  (429/5xx, or the network catch)
               /\ \E d \in BackoffDelays(attempt) : delay' = d
               /\ sleeps' = sleeps + 1
               /\ wpc' = "backoff"
               /\ UNCHANGED <<results, errors>>
          ELSE \* throw NotionApiError; syncTrades' catch: errors.push
               /\ errors' = Push(errors, i)
               /\ wpc' = "next"
               /\ UNCHANGED <<results, delay, sleeps>>
  /\ UNCHANGED <<trades, remote, i, attempt, fetches, totalFetches, attempted>>
  /\ signal' = NULL
  /\ UNCHANGED <<limiterVars, authVars, trackVars, storeVars>>

\* the sleep is over: attempt++ and the next fetch
BackoffEnds ==
  /\ wpc = "backoff"
  /\ delay' = 0
  /\ attempt' = attempt + 1
  /\ fetches' = fetches + 1
  /\ totalFetches' = totalFetches + 1
  /\ wpc' = "inflight"
  /\ UNCHANGED <<trades, remote, i, results, errors, sleeps, onlyRetryable,
                 lastStatus, attempted>>
  /\ signal' = SignalOf(FetchInit(PageOptions))
  /\ UNCHANGED <<limiterVars, authVars, trackVars, storeVars>>

\* i++
Advance ==
  /\ wpc = "next"
  /\ i' = i + 1
  /\ wpc' = "loop"
  /\ attempt' = 0
  /\ fetches' = 0
  /\ sleeps' = 0
  /\ onlyRetryable' = TRUE
  /\ lastStatus' = NULL
  /\ UNCHANGED <<trades, remote, delay, results, errors, totalFetches, attempted>>
  /\ UNCHANGED <<limiterVars, authVars, trackVars, storeVars, netVars>>

\* return Response.json({ data: { total, synced, failed, results, errors } })
Finish ==
  /\ wpc = "loop"
  /\ i >= Len(trades)
  /\ wpc' = "done"
  /\ UNCHANGED <<trades, remote, i, attempt, delay, results, errors, fetches,
                 sleeps, onlyRetryable, lastStatus, totalFetches, attempted>>
  /\ UNCHANGED <<limiterVars, authVars, trackVars, storeVars, netVars>>

NextSync ==
  \/ BeginItem
  \/ BeginPace
  \/ PaceEnds
  \/ FetchReturns
  \/ BackoffEnds
  \/ Advance
  \/ Finish

SpecSync == InitSync /\ [][NextSync]_vars

\* ------------------------------ generation 1: handleCreateTrades
NOTION_RATE_DELAY_MS == 340
RETRY_DELAY_MS == 1000

InitCreate ==
  /\ StoresIdle
  /\ NetIdle
  /\ TrackIdle
  /\ AuthIdle
  /\ LimiterIdle
  /\ \E n \in 1..MaxBatch : trades \in SeqsOfLen(TradeShapes, n)
  /\ remote = Answers
  /\ wpc = "loop"
  /\ i = 0
  /\ attempt = 0
  /\ delay = 0
  /\ results = <<>>
  /\ errors = <<>>
  /\ fetches = 0
  /\ sleeps = 0
  /\ onlyRetryable = TRUE
  /\ lastStatus = NULL
  /\ totalFetches = 0
  /\ attempted = {}

\* if (i < body.trades.length - 1) await delay(NOTION_RATE_DELAY_MS)
PaceOrNext ==
  IF i < Len(trades) - 1
  THEN wpc' = "pace" /\ delay' = NOTION_RATE_DELAY_MS
  ELSE wpc' = "next" /\ delay' = 0

\* catch { errors.push({ symbol: trade.symbol, error: 'REQUEST_FAILED' }) }
CatchPush ==
  /\ errors' = Push(errors, i)
  /\ wpc' = "next"
  /\ delay' = 0
  /\ UNCHANGED results

\* mapTradeToNotionProperties(trade) and the first notionFetch.  On a null
\* trade the mapper throws and the catch throws again reading trade.symbol.
CreateBegin ==
  /\ wpc = "loop"
  /\ i < Len(trades)
  /\ TryItem
  /\ UNCHANGED <<trades, remote, i, delay, results, errors, sleeps,
                 onlyRetryable, lastStatus>>
  /\ UNCHANGED <<limiterVars, authVars, trackVars, storeVars>>

\* the first response of item i
CreateFetchReturns ==
  /\ wpc = "inflight"
  /\ \E a \in remote :
       /\ lastStatus' = a.status
       /\ onlyRetryable' = (onlyRetryable /\ IsRetryable(a.status))
       /\ IF a.status = STATUS_NONE \/ (ResponseOk(a) /\ ~a.bodyOk)
          THEN CatchPush /\ UNCHANGED sleeps
          ELSE IF ResponseOk(a)
          THEN /\ results' = Push(results, i)
               /\ PaceOrNext
               /\ UNCHANGED <<errors, sleeps>>
          ELSE IF a.status = 429
          THEN \* Back off and retry once on rate limit
               /\ delay' = RETRY_DELAY_MS
               /\ sleeps' = sleeps + 1
               /\ wpc' = "backoff"
               /\ UNCHANGED <<results, errors>>
          ELSE /\ errors' = Push(errors, i)
               /\ PaceOrNext
               /\ UNCHANGED <<results, sleeps>>
  /\ UNCHANGED <<trades, remote, i, attempt, fetches, totalFetches, attempted>>
  /\ signal' = NULL
  /\ UNCHANGED <<limiterVars, authVars, trackVars, storeVars>>

\* await delay(1000) is over: the one retry
CreateRetry ==
  /\ wpc = "backoff"
  /\ delay' = 0
  /\ attempt' = attempt + 1
  /\ fetches' = fetches + 1
  /\ totalFetches' = totalFetches + 1
  /\ wpc' = "inflight2"
  /\ UNCHANGED <<trades, remote, i, results, errors, sleeps, onlyRetryable,
                 lastStatus, attempted>>
  /\ signal' = SignalOf(FetchInit(PageOptions))
  /\ UNCHANGED <<limiterVars, authVars, trackVars, storeVars>>

\* retryResponse
CreateRetryReturns ==
  /\ wpc = "inflight2"
  /\ \E a \in remote :
       /\ lastStatus' = a.status
       /\ onlyRetryable' = (onlyRetryable /\ IsRetryable(a.status))
       /\ IF a.status = STATUS_NONE \/ (ResponseOk(a) /\ ~a.bodyOk)
          THEN CatchPush
          ELSE IF ResponseOk(a)
          THEN /\ results' = Push(results, i)
               /\ PaceOrNext
               /\ UNCHANGED errors
          ELSE \* errors.push({ ..., error: 'RATE_LIMITED' })
               /\ errors' = Push(errors, i)
               /\ PaceOrNext
               /\ UNCHANGED results
  /\ UNCHANGED <<trades, remote, i, attempt, fetches, sleeps, totalFetches,
                 attempted>>
  /\ signal' = NULL
  /\ UNCHANGED <<limiterVars, authVars, trackVars, storeVars>>

CreatePaceEnds ==
  /\ wpc = "pace"
  /\ delay' = 0
  /\ wpc' = "next"
  /\ UNCHANGED <<trades, remote, i, attempt, results, errors, fetches, sleeps,
                 onlyRetryable, lastStatus, totalFetches, attempted>>
  /\ UNCHANGED <<limiterVars, authVars, trackVars, storeVars, netVars>>

\* i++
CreateAdvance ==
  /\ wpc = "next"
  /\ i' = i + 1
  /\ wpc' = "loop"
  /\ attempt' = 0
  /\ fetches' = 0
  /\ sleeps' = 0
  /\ onlyRetryable' = TRUE
  /\ lastStatus' = NULL
  /\ UNCHANGED <<trades, remote, delay, results, errors, totalFetches, attempted>>
  /\ UNCHANGED <<limiterVars, authVars, trackVars, storeVars, netVars>>

\* return jsonResponse({ success, synced_count, error_count, results, errors })
CreateFinish ==
  /\ wpc = "loop"
  /\ i >= Len(trades)
  /\ wpc' = "done"
  /\ UNCHANGED <<trades, remote, i, attempt, delay, results, errors, fetches,
                 sleeps, onlyRetryable, lastStatus, totalFetches, attempted>>
  /\ UNCHANGED <<limiterVars, authVars, trackVars, storeVars, netVars>>

NextCreate ==
  \/ CreateBegin
  \/ CreateFetchReturns
  \/ CreateRetry
  \/ CreateRetryReturns
  \/ CreatePaceEnds
  \/ CreateAdvance
  \/ CreateFinish

SpecCreate == InitCreate /\ [][NextCreate]_vars

\* ------------------------------------------------ batch writer properties
Indices(list) == {list[k] : k \in 1..Len(list)}

InInputOrder(list) ==
  \A j, k \in 1..Len(list) : j < k => list[j] < list[k]

RecordedFailed == Len(errors) > 0 /\ errors[Len(errors)] = i

\* The item at index i has run to its end.
ItemFinished == wpc \in {"next", "pace"} /\ lastStatus # NULL

NonRetryableClientError(status) ==
  status >= 400 /\ status <= 499 /\ status # 429

\* C7: when every attempt to write one item was answered 429 or 5xx, the
\* write was invoked exactly 1 + MAX_RETRIES = 4 times for that item and the
\* item is recorded as failed.
C7_RetryableExhausted ==
  (ItemFinished /\ onlyRetryable) =>
      fetches = 1 + MAX_RETRIES /\ RecordedFailed

C10_EveryItemAttempted ==
  wpc \in {"done", "threw"} =>
      /\ wpc = "done"
      /\ attempted = 0..(Len(trades) - 1)
      /\ totalFetches <= Len(trades) * (1 + MAX_RETRIES)

\* Indices whose final outcome is in results or errors.
Recorded == Indices(results) \cup Indices(errors)

\* A write is on its way to the Notion API.
WriteInFlight == wpc \in {"inflight", "inflight2"}

\* C11: writes are sequential and in input order: a write in flight is the
\* write of item i, the only item without a final outcome, and every item
\* ever written other than i has its outcome recorded before any write of a
\* later item.
C11_SequentialInOrder ==
  /\ \A j \in attempted : j <= i /\ (\A k \in 0..(j - 1) : k \in Recorded)
  /\ \A j \in Recorded : j \in attempted /\ (j < i \/ (j = i /\ wpc \in {"next", "pace"}))
  /\ WriteInFlight => (i \in attempted /\ Recorded = 0..(i - 1))

C11_Witness ==
  /\ wpc = "inflight"
  /\ i = 2
  /\ attempt >= 1
  /\ Len(errors) >= 1
  /\ Len(results) >= 1

\* The first write of an item after the first is being issued.
LaterItemStarts == i > 0 /\ wpc \in {"loop", "pace"} /\ wpc' = "inflight"

\* The step ends a pacing sleep of the inter-item delay.
AfterPacingSleep == wpc = "pace" /\ delay = BATCH_SEQUENTIAL_DELAY_MS

OkAnswers == {a \in Answers : a.status = 200 /\ a.bodyOk}

\* Batch sizes around the ceiling, and one small batch.
BatchSizes == {0, 1, MAX_BATCH_SIZE, MAX_BATCH_SIZE + 1}

\* A request body { trades: [...] } has been parsed and a database is known.
InitRoute ==
  /\ StoresIdle
  /\ NetIdle
  /\ TrackIdle
  /\ AuthIdle
  /\ LimiterIdle
  /\ \E n \in BatchSizes : trades = [k \in 1..n |-> "trade"]
  /\ \/ remote = OkAnswers
     \/ Len(trades) <= 1 /\ remote = Answers
  /\ wpc = "validate"
  /\ i = 0
  /\ attempt = 0
  /\ delay = 0
  /\ results = <<>>
  /\ errors = <<>>
  /\ fetches = 0
  /\ sleeps = 0
  /\ onlyRetryable = TRUE
  /\ lastStatus = NULL
  /\ totalFetches = 0
  /\ attempted = {}

\* syncTrades: trades.length === 0 -> MISSING_FIELD, trades.length > 100 ->
\* BATCH_TOO_LARGE, else the loop
ValidateSync ==
  /\ wpc = "validate"
  /\ wpc' = IF Len(trades) = 0 THEN "MISSING_FIELD"
            ELSE IF Len(trades) > MAX_BATCH_SIZE THEN "BATCH_TOO_LARGE"
            ELSE "loop"
  /\ UNCHANGED <<trades, remote, i, attempt, delay, results, errors, fetches,
                 sleeps, onlyRetryable, lastStatus, totalFetches, attempted>>
  /\ UNCHANGED <<limiterVars, authVars, trackVars, storeVars, netVars>>

\* handleCreateTrades: body.trades.length === 0 -> NO_TRADES, else the loop
ValidateCreate ==
  /\ wpc = "validate"
  /\ wpc' = IF Len(trades) = 0 THEN "NO_TRADES" ELSE "loop"
  /\ UNCHANGED <<trades, remote, i, attempt, delay, results, errors, fetches,
                 sleeps, onlyRetryable, lastStatus, totalFetches, attempted>>
  /\ UNCHANGED <<limiterVars, authVars, trackVars, storeVars, netVars>>

NextSyncRoute == ValidateSync \/ NextSync

SpecSyncRoute == InitRoute /\ [][NextSyncRoute]_vars

NextCreateRoute == ValidateCreate \/ NextCreate

SpecCreateRoute == InitRoute /\ [][NextCreateRoute]_vars

\* C13: a batch of more than 100 items is answered BATCH_TOO_LARGE and no
\* write is ever issued for it; a batch of exactly 100 items is not rejected.
C13_LargeBatchRejected ==
  /\ Len(trades) > MAX_BATCH_SIZE =>
        /\ totalFetches = 0
        /\ wpc \in {"validate", "BATCH_TOO_LARGE"}
  /\ Len(trades) = MAX_BATCH_SIZE => wpc # "BATCH_TOO_LARGE"

\* ------------------------------------------------ request authentication
DigestBytes == 1

TIMESTAMP_TOLERANCE_MS == 300000

\* Date.now()
Now == 400000

\* X-Timestamp: no header, an empty header, a string Date cannot parse, or
\* the time in ms the string parses to.
TS_ABSENT == -1
TS_EMPTY == -2
TS_GARBAGE == -3

TimestampList ==
  <<TS_ABSENT, TS_EMPTY, TS_GARBAGE,
    Now - TIMESTAMP_TOLERANCE_MS - 1, Now - TIMESTAMP_TOLERANCE_MS,
    Now,
    Now + TIMESTAMP_TOLERANCE_MS, Now + TIMESTAMP_TOLERANCE_MS + 1>>

Range(list) == {list[k] : k \in 1..Len(list)}

IndexOf(list, x) == CHOOSE k \in 1..Len(list) : list[k] = x

\* new Date(timestamp).getTime() is NaN
IsNaN(ts) == ts = TS_GARBAGE

Abs(x) == IF x < 0 THEN -x ELSE x

\* A freshness test that only rejects timestamps of the past.
TimestampStaleOnly(ts, now) ==
  IsNaN(ts) \/ now - ts > TIMESTAMP_TOLERANCE_MS

\* isNaN(requestTime) || Math.abs(now - requestTime) > TIMESTAMP_TOLERANCE_MS
TimestampExpired(ts, now) ==
  IsNaN(ts) \/ Abs(now - ts) > TIMESTAMP_TOLERANCE_MS

\* License keys, one character per element.
KeyCharset ==
  {"A", "B", "C", "D", "E", "F", "G", "H", "J", "K", "M", "N", "P", "Q", "R",
   "S", "T", "U", "V", "W", "X", "Y", "Z", "2", "3", "4", "5", "6", "7", "8",
   "9"}

KeyOf(g) == g \o <<"-">> \o g \o <<"-">> \o g \o <<"-">> \o g

KeyActive == KeyOf(<<"A", "B", "C", "D">>)
KeyUnused == KeyOf(<<"E", "F", "G", "H">>)
KeyRevoked == KeyOf(<<"2", "3", "4", "5">>)
KeyUnknown == KeyOf(<<"W", "X", "Y", "Z">>)
KeyAmbiguous == KeyOf(<<"A", "B", "C", "O">>)
KeyLowercase == KeyOf(<<"a", "b", "c", "d">>)
KeyShort == <<"A", "B", "C", "D">>
KeyAbsent == <<>>

RequestKeys ==
  {KeyAbsent, KeyShort, KeyLowercase, KeyAmbiguous, KeyUnknown, KeyUnused,
   KeyActive, KeyRevoked}

\* /^[A-Z2-9 without I L O]{4}-...{4}-...{4}-...{4}$/.test(key)
isValidKeyFormat(key) ==
  /\ Len(key) = 19
  /\ \A k \in 1..19 :
       IF k \in {5, 10, 15} THEN key[k] = "-" ELSE key[k] \in KeyCharset

\* SELECT status FROM licenses WHERE key = ?  (NULL: no row)
LicenseStatus(key) ==
  IF key = KeyActive THEN "active"
  ELSE IF key = KeyUnused THEN "unused"
  ELSE IF key = KeyRevoked THEN "revoked"
  ELSE "NULL"

\* Request bodies and signing secrets, one character per element.
BodyList == << <<>>, <<"a">>, <<"b">> >>

ServerSecret == <<"k", "1">>
OtherSecret == <<"k", "2">>
SecretList == <<ServerSecret, OtherSecret>>

\* `${timestamp}:${body}`
Message(ts, body) == <<ts, ":">> \o body

RECURSIVE Pow(_, _)
Pow(b, n) == IF n = 0 THEN 1 ELSE b * Pow(b, n - 1)

\* HMAC-SHA256 as a keyed function without collisions on the secrets and
\* messages considered: the digest as a number below 256^DigestBytes.
HmacNumber(secret, msg) ==
  LET t == IndexOf(TimestampList, msg[1])
      b == IndexOf(BodyList, SubSeq(msg, 3, Len(msg)))
      k == IndexOf(SecretList, secret)
      n == ((k - 1) * Len(TimestampList) + (t - 1)) * Len(BodyList) + (b - 1)
  IN  (n * 37 + 11) % Pow(256, DigestBytes)

\* new Uint8Array(signature): the bytes, most significant first
HmacBytes(secret, msg) ==
  [k \in 1..DigestBytes |->
     (HmacNumber(secret, msg) \div Pow(256, DigestBytes - k)) % 256]

\* charCodeAt of a hex digit: "0".."9" are 48..57, "a".."f" are 97..102
HexCharCode(d) == IF d < 10 THEN 48 + d ELSE 87 + d

\* bytes.map(b => b.toString(16).padStart(2, '0')).join('')
RECURSIVE ToHex(_)
ToHex(bytes) ==
  IF bytes = <<>> THEN <<>>
  ELSE <<HexCharCode(Head(bytes) \div 16), HexCharCode(Head(bytes) % 16)>>
         \o ToHex(Tail(bytes))

\* generateSignature(body, timestamp, secret) of the extension
generateSignature(body, ts, secret) == ToHex(HmacBytes(secret, Message(ts, body)))

RECURSIVE BitXor(_, _)
BitXor(a, b) ==
  IF a = 0 /\ b = 0 THEN 0
  ELSE (IF a % 2 = b % 2 THEN 0 ELSE 1) + 2 * BitXor(a \div 2, b \div 2)

RECURSIVE BitOr(_, _)
BitOr(a, b) ==
  IF a = 0 /\ b = 0 THEN 0
  ELSE (IF a % 2 = 1 \/ b % 2 = 1 THEN 1 ELSE 0) + 2 * BitOr(a \div 2, b \div 2)

\* for (i ...) mismatch |= signature.charCodeAt(i) ^ expectedHex.charCodeAt(i)
RECURSIVE XorLoop(_, _, _, _)
XorLoop(signature, expectedHex, k, mismatch) ==
  IF k > Len(signature) THEN [mismatch |-> mismatch, steps |-> k - 1]
  ELSE XorLoop(signature, expectedHex, k + 1,
               BitOr(mismatch, BitXor(signature[k], expectedHex[k])))

\* A comparison that decides on the first position alone.
CompareFirstOnly(signature, expectedHex) ==
  IF Len(signature) # Len(expectedHex) THEN [equal |-> FALSE, steps |-> 0]
  ELSE [equal |-> signature[1] = expectedHex[1], steps |-> 1]

\* signature.length !== expectedHex.length -> false; else mismatch === 0
CompareSignatures(signature, expectedHex) ==
  IF Len(signature) # Len(expectedHex) THEN [equal |-> FALSE, steps |-> 0]
  ELSE LET r == XorLoop(signature, expectedHex, 1, 0)
       IN  [equal |-> r.mismatch = 0, steps |-> r.steps]

\* verifyHmacSignature(body, timestamp, signature, secret)
verifyHmacSignature(body, ts, signature, secret) ==
  CompareSignatures(signature, ToHex(HmacBytes(secret, Message(ts, body))))

\* A signature with the character at position k replaced by another hex digit.
Mutate(sig, k) ==
  [sig EXCEPT ![k] = IF sig[k] = HexCharCode(0) THEN HexCharCode(15)
                     ELSE HexCharCode(0)]

\* toUpperCase on the hex digits
UpperCase(sig) == [k \in 1..Len(sig) |-> IF sig[k] >= 97 THEN sig[k] - 32 ELSE sig[k]]

\* X-Signature headers tried against a request with this timestamp and body:
\* none, signatures made by the extension from the same or another secret,
\* timestamp or body, and the right signature damaged.
SignatureChoices(ts, body) ==
  LET right == generateSignature(body, ts, ServerSecret)
  IN  {<<>>}
      \cup {generateSignature(b, t, k) :
              b \in {body, <<"b">>}, t \in {ts, Now}, k \in Range(SecretList)}
      \cup {Mutate(right, k) : k \in 1..Len(right)}
      \cup {SubSeq(right, 1, Len(right) - 1), right \o <<HexCharCode(0)>>,
            UpperCase(right)}

Paths == {"/health", "/api/analyze"}

\* A request has arrived; the limiter and the writer are not involved.
InitAuth ==
  /\ StoresIdle
  /\ NetIdle
  /\ TrackIdle
  /\ LimiterIdle
  /\ WriterIdle
  /\ \E p \in Paths, k \in RequestKeys, t \in Range(TimestampList),
        b \in Range(BodyList) :
       \E sg \in SignatureChoices(t, b) :
          req = [path |-> p, key |-> k, ts |-> t, sig |-> sg, body |-> b]
  /\ \E db \in BOOLEAN, sec \in {<<>>, ServerSecret} :
       env = [DB |-> db, LICENSE_SIGNING_SECRET |-> sec]
  /\ apc = "recv"
  /\ verdict = "none"
  /\ queries = 0
  /\ storeThrew = FALSE
  /\ xorSteps = 0

\* return { valid: false, reason }
Reject(reason) ==
  /\ verdict' = reason
  /\ apc' = "done"
  /\ UNCHANGED <<queries, storeThrew, xorSteps>>

\* ------------------------------------------- generation 1: verifyRequest
\* the header checks, up to the store query
verifyRequestHeaders ==
  /\ apc = "recv"
  /\ IF req.key = <<>> THEN Reject("MISSING_LICENSE_KEY")
     ELSE IF req.ts \in {TS_ABSENT, TS_EMPTY} THEN Reject("MISSING_TIMESTAMP")
     ELSE IF TimestampExpired(req.ts, Now) THEN Reject("REQUEST_EXPIRED")
     ELSE IF env.DB
     THEN /\ apc' = "query"
          /\ queries' = queries + 1
          /\ UNCHANGED <<verdict, storeThrew, xorSteps>>
     ELSE /\ apc' = "signature"
          /\ UNCHANGED <<verdict, queries, storeThrew, xorSteps>>
  /\ UNCHANGED <<req, env>>
  /\ UNCHANGED <<limiterVars, writerVars, trackVars, storeVars, netVars>>

\* .first() resolves
verifyRequestStoreAnswers ==
  /\ apc = "query"
  /\ IF LicenseStatus(req.key) = "NULL" THEN Reject("LICENSE_NOT_FOUND")
     ELSE IF LicenseStatus(req.key) = "revoked" THEN Reject("LICENSE_REVOKED")
     ELSE /\ apc' = "signature"
          /\ UNCHANGED <<verdict, queries, storeThrew, xorSteps>>
  /\ UNCHANGED <<req, env>>
  /\ UNCHANGED <<limiterVars, writerVars, trackVars, storeVars, netVars>>

\* A store failure that is answered with a rejection.
verifyRequestStoreThrowsClosed ==
  /\ apc = "query"
  /\ storeThrew' = TRUE
  /\ verdict' = "AUTH_SERVICE_UNAVAILABLE"
  /\ apc' = "done"
  /\ UNCHANGED <<req, env, queries, xorSteps>>
  /\ UNCHANGED <<limiterVars, writerVars, trackVars, storeVars, netVars>>

\* catch { DB check failure: allow request as fallback }
verifyRequestStoreThrows ==
  /\ apc = "query"
  /\ storeThrew' = TRUE
  /\ apc' = "signature"
  /\ UNCHANGED <<req, env, verdict, queries, xorSteps>>
  /\ UNCHANGED <<limiterVars, writerVars, trackVars, storeVars, netVars>>

\* A guard that verifies every request once a secret is configured.
SecretConfigured(signature, secret) == secret # <<>>

\* signature && env.LICENSE_SIGNING_SECRET
SignatureAndSecret(signature, secret) == signature # <<>> /\ secret # <<>>

\* if (signature && env.LICENSE_SIGNING_SECRET) verifyHmacSignature(...)
verifyRequestSignature ==
  /\ apc = "signature"
  /\ IF SignatureAndSecret(req.sig, env.LICENSE_SIGNING_SECRET)
     THEN LET r == verifyHmacSignature(req.body, req.ts, req.sig,
                                       env.LICENSE_SIGNING_SECRET)
          IN  /\ xorSteps' = r.steps
              /\ verdict' = IF r.equal THEN "valid" ELSE "INVALID_SIGNATURE"
     ELSE /\ verdict' = "valid"
          /\ UNCHANGED xorSteps
  /\ apc' = "done"
  /\ UNCHANGED <<req, env, queries, storeThrew>>
  /\ UNCHANGED <<limiterVars, writerVars, trackVars, storeVars, netVars>>

NextVerify ==
  \/ verifyRequestHeaders
  \/ verifyRequestStoreAnswers
  \/ verifyRequestStoreThrows
  \/ verifyRequestSignature

SpecVerify == InitAuth /\ [][NextVerify]_vars

\* ------------------------------------------- generation 2: authenticate
SKIP_AUTH_PATHS == {"/health", "/api/license/activate", "/api/notion/callback"}

\* the path and header checks, up to the store query; with no DB binding
\* env.DB.prepare throws inside the try
authenticateHeaders ==
  /\ apc = "recv"
  /\ IF req.path \in SKIP_AUTH_PATHS THEN Reject("skipped")
     ELSE IF req.key = <<>> THEN Reject("AUTH_MISSING_KEY")
     ELSE IF ~isValidKeyFormat(req.key) THEN Reject("AUTH_INVALID_FORMAT")
     ELSE IF env.DB
     THEN /\ apc' = "query"
          /\ queries' = queries + 1
          /\ UNCHANGED <<verdict, storeThrew, xorSteps>>
     ELSE /\ verdict' = "AUTH_DB_ERROR"
          /\ storeThrew' = TRUE
          /\ apc' = "done"
          /\ UNCHANGED <<queries, xorSteps>>
  /\ UNCHANGED <<req, env>>
  /\ UNCHANGED <<limiterVars, writerVars, trackVars, storeVars, netVars>>

\* .first() resolves
authenticateStoreAnswers ==
  /\ apc = "query"
  /\ IF LicenseStatus(req.key) = "NULL" THEN Reject("AUTH_KEY_NOT_FOUND")
     ELSE IF LicenseStatus(req.key) # "active" THEN Reject("AUTH_KEY_NOT_ACTIVE")
     ELSE /\ verdict' = "valid"
          /\ apc' = "done"
          /\ UNCHANGED <<queries, storeThrew, xorSteps>>
  /\ UNCHANGED <<req, env>>
  /\ UNCHANGED <<limiterVars, writerVars, trackVars, storeVars, netVars>>

\* catch (err): AUTH_DB_ERROR, status 500
authenticateStoreThrows ==
  /\ apc = "query"
  /\ storeThrew' = TRUE
  /\ verdict' = "AUTH_DB_ERROR"
  /\ apc' = "done"
  /\ UNCHANGED <<req, env, queries, xorSteps>>
  /\ UNCHANGED <<limiterVars, writerVars, trackVars, storeVars, netVars>>

NextAuth ==
  \/ authenticateHeaders
  \/ authenticateStoreAnswers
  \/ authenticateStoreThrows

SpecAuth == InitAuth /\ [][NextAuth]_vars

\* ------------------------------------------- authentication properties
\* The request was decided by the signature check.
SignatureChecked ==
  /\ apc = "done"
  /\ verdict \in {"valid", "INVALID_SIGNATURE"}
  /\ req.sig # <<>>
  /\ env.LICENSE_SIGNING_SECRET # <<>>

\* HMAC-SHA256(secret, timestamp + ":" + rawBody) in hex, for the request
RightSignature ==
  generateSignature(req.body, req.ts, env.LICENSE_SIGNING_SECRET)

\* C14: with a signature supplied and a secret configured, the request is
\* accepted iff the signature equals the hex HMAC of timestamp:body under the
\* secret, and is answered INVALID_SIGNATURE otherwise; the comparison visits
\* no position when the lengths differ and every position when they agree.
C14_SignatureIffHmac ==
  SignatureChecked =>
      /\ verdict = "valid" <=> req.sig = RightSignature
      /\ verdict = "INVALID_SIGNATURE" <=> req.sig # RightSignature
      /\ xorSteps = IF Len(req.sig) = Len(RightSignature) THEN Len(req.sig) ELSE 0

C14_Witness ==
  /\ SignatureChecked
  /\ verdict = "valid"
  /\ req.sig = RightSignature
  /\ xorSteps = 2 * DigestBytes

\* The reason of the first check of the fixed order that the request fails,
\* "none" when the header checks pass.
FirstHeaderFailure ==
  IF req.key = <<>> THEN "MISSING_LICENSE_KEY"
  ELSE IF ~isValidKeyFormat(req.key) THEN "INVALID_FORMAT"
  ELSE IF req.ts \in {TS_ABSENT, TS_EMPTY} THEN "MISSING_TIMESTAMP"
  ELSE IF TimestampExpired(req.ts, Now) THEN "REQUEST_EXPIRED"
  ELSE "none"

\* C15: a request with a missing or malformed identity or a missing or stale
\* timestamp never has a store query issued for it and is rejected, with the
\* reason of the first failing check where the authenticator has that check.
C15_HeaderChecksBeforeStore ==
  FirstHeaderFailure # "none" =>
      /\ queries = 0
      /\ apc = "done" =>
           /\ verdict \notin {"none", "valid"}
           /\ FirstHeaderFailure # "INVALID_FORMAT" => verdict = FirstHeaderFailure

\* The request is authenticated and goes on to its route handler.
Accepted == apc = "done" /\ verdict = "valid"

Rejected == apc = "done" /\ verdict \notin {"none", "valid", "skipped"}

\* C16: with an identity supplied, an absent timestamp is answered
\* MISSING_TIMESTAMP, an unparseable one or one more than 300000 ms before or
\* after now REQUEST_EXPIRED, and one within 300000 ms of now on either side
\* passes the freshness check.
C16_FreshnessWindow ==
  (apc = "done" /\ req.key # <<>>) =>
      IF req.ts \in {TS_ABSENT, TS_EMPTY} THEN verdict = "MISSING_TIMESTAMP"
      ELSE IF \/ req.ts = TS_GARBAGE
              \/ req.ts < Now - 300000
              \/ req.ts > Now + 300000
      THEN verdict = "REQUEST_EXPIRED"
      ELSE verdict \notin {"MISSING_TIMESTAMP", "REQUEST_EXPIRED"}

C16_Witness ==
  /\ Accepted
  /\ req.ts = Now + 300000

\* The store answered the query of the request.
StoreAnswered == apc = "done" /\ queries = 1 /\ ~storeThrew

\* C17: when the store answers, an identity without a row and a revoked
\* identity are rejected, and an identity whose status is "unused" is not
\* rejected for its status.
C17_UnusedNotRejected ==
  StoreAnswered =>
      /\ LicenseStatus(req.key) \in {"NULL", "revoked"} => Rejected
      /\ LicenseStatus(req.key) = "unused" =>
           verdict \in {"valid", "INVALID_SIGNATURE"}

C19_FailClosedOnStoreError ==
  (apc = "done" /\ storeThrew) =>
      /\ ~Accepted
      /\ verdict = "AUTH_SERVICE_UNAVAILABLE"

\* ------------------- generation 1: handleParse after the Claude response
\* What claudeResponse.content[0].text holds: a JSON array of trades, a JSON
\* object with an error field, text without JSON, or the JSON literal null.
Contents == {"trades", "error_object", "text", "null"}

\* extractJsonFromResponse(content) and the response built from it; on null
\* parsedData.error throws and the handler's catch answers PARSE_FAILED.
ParseResponse(content) ==
  IF content = "trades" THEN [status |-> 200, body |-> "trades"]
  ELSE IF content = "error_object" THEN [status |-> 200, body |-> "error_object"]
  ELSE IF content = "text" THEN [status |-> 200, body |-> "PARSE_FAILED"]
  ELSE [status |-> 500, body |-> "PARSE_FAILED"]

\* The rate-limit check is over (today's row counted, or absent after a
\* failed check) and Claude has answered with a content.
InitTrack ==
  /\ StoresIdle
  /\ NetIdle
  /\ WriterIdle
  /\ AuthIdle
  /\ \E r \in {NoRow, Row(1, 0, 0, 0)} :
       usage = [SeedUsage(0, 0) EXCEPT ![Today] = r]
  /\ pc = [w \in Workers |-> "idle"]
  /\ monthlyUsage = [w \in Workers |-> NULL]
  /\ changes = [w \in Workers |-> NULL]
  /\ result = [w \in Workers |-> "none"]
  /\ opType = [w \in Workers |-> "none"]
  /\ dailyRow = [w \in Workers |-> NULL]
  /\ nCalls = 0
  /\ nAllowed = 0
  /\ nDeniedDaily = 0
  /\ storeFailed = FALSE
  /\ threw = [w \in Workers |-> FALSE]
  /\ \E c \in Contents, ti \in {0, 3}, to \in {0, 2} :
       claude = [content |-> c, input_tokens |-> ti, output_tokens |-> to]
  /\ hasDB \in BOOLEAN
  /\ hpc = "track"
  /\ response = NoResponse
  /\ trackThrew = FALSE

\* await trackTokenUsage(...): the upsert runs
handleParseTracks ==
  /\ hpc = "track"
  /\ hasDB
  /\ usage' = TokenUpsert(usage, Today, claude.input_tokens, claude.output_tokens)
  /\ hpc' = "respond"
  /\ UNCHANGED <<pc, monthlyUsage, changes, result, opType, dailyRow,
                 nCalls, nAllowed, nDeniedDaily, storeFailed, threw>>
  /\ UNCHANGED <<claude, hasDB, response, trackThrew>>
  /\ UNCHANGED <<writerVars, authVars, storeVars, netVars>>

\* A token accounting whose store error reaches the handler's catch.
handleParseTrackPropagates ==
  /\ hpc = "track"
  /\ hasDB
  /\ trackThrew' = TRUE
  /\ response' = [status |-> 500, body |-> "PARSE_FAILED"]
  /\ hpc' = "sent"
  /\ UNCHANGED <<claude, hasDB>>
  /\ UNCHANGED <<limiterVars, writerVars, authVars, storeVars, netVars>>

\* await trackTokenUsage(...): the upsert throws and the catch swallows it
handleParseTrackThrows ==
  /\ hpc = "track"
  /\ hasDB
  /\ trackThrew' = TRUE
  /\ hpc' = "respond"
  /\ UNCHANGED <<claude, hasDB, response>>
  /\ UNCHANGED <<limiterVars, writerVars, authVars, storeVars, netVars>>

\* if (!licenseKey || !env.DB) return
handleParseTrackSkipped ==
  /\ hpc = "track"
  /\ ~hasDB
  /\ hpc' = "respond"
  /\ UNCHANGED <<claude, hasDB, response, trackThrew>>
  /\ UNCHANGED <<limiterVars, writerVars, authVars, storeVars, netVars>>

\* extractJsonFromResponse(content) and the return
handleParseResponds ==
  /\ hpc = "respond"
  /\ response' = ParseResponse(claude.content)
  /\ hpc' = "sent"
  /\ UNCHANGED <<claude, hasDB, trackThrew>>
  /\ UNCHANGED <<limiterVars, writerVars, authVars, storeVars, netVars>>

NextTrack ==
  \/ handleParseTracks
  \/ handleParseTrackThrows
  \/ handleParseTrackSkipped
  \/ handleParseResponds

SpecTrack == InitTrack /\ [][NextTrack]_vars

\* The response a Claude content gets when the accounting write succeeds.
ResponseOnSuccess ==
  [status |-> IF claude.content = "null" THEN 500 ELSE 200,
   body |-> IF claude.content \in {"text", "null"} THEN "PARSE_FAILED"
            ELSE claude.content]

\* C20: when the store write of the token accounting throws, the accounting
\* returns normally, the handler goes on to build its response, and the
\* response sent is the one the same Claude content gets when the write
\* succeeds.
C20_TrackingFailureInvisible ==
  /\ trackThrew => hpc \in {"respond", "sent"}
  /\ hpc = "sent" => response = ResponseOnSuccess
  /\ hpc # "sent" => response = NoResponse

C20_Witness ==
  /\ hpc = "sent"
  /\ trackThrew
  /\ response = [status |-> 200, body |-> "trades"]

\* -------------------------------- generation 1: the router on /claude/
\* A request to a /claude/ route arrives; the usage table has today's row
\* absent, one below the ceiling or at it, in a month empty or used up.
InitPipeline ==
  /\ StoresIdle
  /\ NetIdle
  /\ WriterIdle
  /\ TrackIdle
  /\ \E k \in RequestKeys, t \in Range(TimestampList) :
       \E sg \in SignatureChoices(t, <<"a">>) :
          req = [path |-> "/claude/parse", key |-> k, ts |-> t, sig |-> sg,
                 body |-> <<"a">>]
  /\ \E db \in BOOLEAN, sec \in {<<>>, ServerSecret} :
       env = [DB |-> db, LICENSE_SIGNING_SECRET |-> sec]
  /\ apc = "recv"
  /\ verdict = "none"
  /\ queries = 0
  /\ storeThrew = FALSE
  /\ xorSteps = 0
  /\ \E s \in {<<0, 0>>, <<20, 0>>} :
       \E r \in {NoRow, Row(DAILY_LIMIT - 1, 0, 0, 0), Row(DAILY_LIMIT, 0, 0, 0)} :
          usage = [SeedUsage(s[1], s[2]) EXCEPT ![Today] = r]
  /\ pc = [w \in Workers |-> "idle"]
  /\ monthlyUsage = [w \in Workers |-> NULL]
  /\ changes = [w \in Workers |-> NULL]
  /\ result = [w \in Workers |-> "none"]
  /\ opType = [w \in Workers |-> "none"]
  /\ dailyRow = [w \in Workers |-> NULL]
  /\ nCalls = 0
  /\ nAllowed = 0
  /\ nDeniedDaily = 0
  /\ storeFailed = FALSE
  /\ threw = [w \in Workers |-> FALSE]

\* A router that goes on whatever verifyRequest returned.
AuthIgnored == apc = "done"

\* if (!authResult.valid) return 401; request.licenseKey = authResult.licenseKey
AuthPassed == apc = "done" /\ verdict = "valid"

\* const rateLimitResult = await checkRateLimit(request.licenseKey, env)
RouterChecksRateLimit ==
  /\ AuthPassed
  /\ nCalls = 0
  /\ Request(1)

PARSE_TIMEOUT_MS == 30000

\* The init of handleParse's fetch: signal is controller.signal, aborted by
\* setTimeout(() => controller.abort(), PARSE_TIMEOUT_MS).
ClaudeInit ==
  [method |-> "POST", headers |-> "x-api-key", body |-> "messages",
   signal |-> PARSE_TIMEOUT_MS]

\* handleParse / handleAnalyze pass their input checks: fetch to the LLM
HandlerCallsClaude ==
  /\ pc[1] = "handler"
  /\ hpc = "idle"
  /\ hpc' = "called"
  /\ signal' = SignalOf(ClaudeInit)
  /\ UNCHANGED <<claude, hasDB, response, trackThrew>>
  /\ UNCHANGED <<limiterVars, writerVars, authVars, storeVars>>

\* the handler returns: an input check failed, or the LLM call failed or
\* was aborted by its timer; finally { clearTimeout(timeoutId) }
HandlerReturns ==
  /\ pc[1] = "handler"
  /\ pc' = [pc EXCEPT ![1] = "idle"]
  /\ signal' = NULL
  /\ UNCHANGED <<usage, monthlyUsage, changes, result, opType, dailyRow,
                 nCalls, nAllowed, nDeniedDaily, storeFailed, threw>>
  /\ UNCHANGED <<writerVars, authVars, trackVars, storeVars>>

\* the LLM answered: trackTokenUsage (its upsert, or its catch), then the
\* response; finally { clearTimeout(timeoutId) }
HandlerTracks ==
  /\ hpc = "called"
  /\ pc[1] = "handler"
  /\ \/ \E t \in TokenUsages(usage) :
          usage' = TokenUpsert(usage, Today, t[1], t[2])
     \/ usage' = usage
  /\ pc' = [pc EXCEPT ![1] = "idle"]
  /\ signal' = NULL
  /\ UNCHANGED <<monthlyUsage, changes, result, opType, dailyRow,
                 nCalls, nAllowed, nDeniedDaily, storeFailed, threw>>
  /\ UNCHANGED <<writerVars, authVars, trackVars, storeVars>>

NextPipeline ==
  \/ verifyRequestHeaders
  \/ verifyRequestStoreAnswers
  \/ verifyRequestStoreThrows
  \/ verifyRequestSignature
  \/ RouterChecksRateLimit
  \/ MonthlyCheck(1)
  \/ DailyUpsert(1)
  \/ CheckThrows(1)
  \/ HandlerCallsClaude
  \/ HandlerReturns
  \/ HandlerTracks

SpecPipeline == InitPipeline /\ [][NextPipeline]_vars

\* The rate limiter was never called for the request.
LimiterUntouched ==
  /\ nCalls = 0
  /\ pc[1] = "idle"
  /\ result[1] = "none"
  /\ monthlyUsage[1] = NULL
  /\ changes[1] = NULL

\* C21: the LLM call is issued only for a request that the authenticator
\* accepted and for which the rate limiter then returned allowed; a request
\* the authenticator rejected never has the usage table read or written, and
\* neither it nor a request the limiter denied reaches the LLM.
C21_AuthThenLimitThenLLM ==
  [][/\ hpc' = "called" => (verdict' = "valid" /\ result'[1] = "allowed")
     /\ verdict' # "valid" => (LimiterUntouched' /\ usage' = usage /\ hpc' = "idle")
     /\ result'[1] \in {"MONTHLY_LIMIT_REACHED", "DAILY_LIMIT_REACHED"} =>
          hpc' = "idle"]_vars

C21_Witness ==
  /\ hpc = "called"
  /\ verdict = "valid"
  /\ result[1] = "allowed"
  /\ changes[1] = 1
  /\ TodayCount = DAILY_LIMIT

\* Worker w's check returns a denial in this step.
DeniedStep(w) ==
  /\ pc[w] \in {"monthly", "upsert"}
  /\ pc'[w] = "idle"
  /\ result'[w] \in {"MONTHLY_LIMIT_REACHED", "DAILY_LIMIT_REACHED"}

\* C22: a check that is denied leaves the usage table as it was: a monthly
\* denial comes from the SUM read with no upsert issued, a daily denial from
\* the upsert changing zero rows with the day's count at the ceiling; the
\* steps of a check before its upsert never write.
C22_DeniedCheckWritesNothing ==
  [][\A w \in Workers :
       /\ DeniedStep(w) =>
            /\ usage' = usage
            /\ result'[w] = "MONTHLY_LIMIT_REACHED" =>
                 (pc[w] = "monthly" /\ changes'[w] = NULL)
            /\ result'[w] = "DAILY_LIMIT_REACHED" =>
                 /\ pc[w] = "upsert"
                 /\ changes'[w] = 0
                 /\ usage'[Today].present
                 /\ usage'[Today].analysis_count = DAILY_LIMIT
       /\ (pc[w] \in {"idle", "monthly"} /\ pc'[w] # pc[w]) => usage' = usage]_vars

C22_Witness ==
  \E w \in Workers :
    /\ result[w] = "DAILY_LIMIT_REACHED"
    /\ changes[w] = 0
    /\ pc[w] = "idle"
    /\ TodayCount = DAILY_LIMIT
    /\ nDeniedDaily >= 2

\* ------------------------------------------------- the usage table as rows
\* schema.sql: usage(id INTEGER PRIMARY KEY AUTOINCREMENT, license_key, date,
\* analysis_count, token_input, token_output, UNIQUE(license_key, date)).
MaxTableCalls == 3

Identities == {"key_a", "key_b"}

\* new Date().toISOString().split('T')[0] of requests around a midnight
TableDates == {Today - 1, Today}

UsageRow(id, key, date, a, ti, to) ==
  [id |-> id, license_key |-> key, date |-> date, analysis_count |-> a,
   token_input |-> ti, token_output |-> to]

\* The rows a statement for (key, date) conflicts with.
Conflicting(t, key, date) ==
  {r \in t : r.license_key = key /\ r.date = date}

RECURSIVE SumRows(_)
SumRows(S) ==
  IF S = {} THEN 0
  ELSE LET r == CHOOSE x \in S : TRUE IN r.analysis_count + SumRows(S \ {r})

\* SELECT SUM(analysis_count) as total FROM usage
\* WHERE license_key = ? AND date >= ?   (NULL over no rows)
RowSumOrNull(t, key, monthStart) ==
  LET S == {r \in t : r.license_key = key /\ r.date >= monthStart} IN
  IF S = {} THEN NULL ELSE SumRows(S)

\* A plain INSERT INTO usage (...) VALUES (?, ?, 1, 0, 0): it fails on
\* UNIQUE(license_key, date) when the pair has a row.
InsertCount(t, id, key, date, limit) ==
  IF Conflicting(t, key, date) = {}
  THEN [rows |-> t \cup {UsageRow(id, key, date, 1, 0, 0)}, nextId |-> id + 1,
        changes |-> 1, error |-> FALSE]
  ELSE [rows |-> t, nextId |-> id, changes |-> 0, error |-> TRUE]

\* INSERT INTO usage (...) VALUES (?, ?, 1, 0, 0)
\* ON CONFLICT(license_key, date) DO UPDATE SET
\* analysis_count = analysis_count + 1 WHERE analysis_count < ?
UpsertCount(t, id, key, date, limit) ==
  IF Conflicting(t, key, date) = {}
  THEN [rows |-> t \cup {UsageRow(id, key, date, 1, 0, 0)}, nextId |-> id + 1,
        changes |-> 1, error |-> FALSE]
  ELSE LET hit == {r \in Conflicting(t, key, date) : r.analysis_count < limit}
       IN [rows |-> (t \ hit) \cup
                      {[r EXCEPT !.analysis_count = @ + 1] : r \in hit},
           nextId |-> id, changes |-> Cardinality(hit), error |-> FALSE]

\* INSERT INTO usage (...) VALUES (?, ?, 0, ?, ?)
\* ON CONFLICT(license_key, date) DO UPDATE SET
\* token_input = token_input + ?, token_output = token_output + ?
UpsertTokens(t, id, key, date, ti, to) ==
  IF Conflicting(t, key, date) = {}
  THEN [rows |-> t \cup {UsageRow(id, key, date, 0, ti, to)}, nextId |-> id + 1,
        changes |-> 1, error |-> FALSE]
  ELSE LET hit == Conflicting(t, key, date)
       IN [rows |-> (t \ hit) \cup
                      {[r EXCEPT !.token_input = @ + ti,
                                 !.token_output = @ + to] : r \in hit},
           nextId |-> id, changes |-> Cardinality(hit), error |-> FALSE]

\* claudeResponse.usage of a request, the row's totals kept within MaxTokens
RowTokenUsages(t, key, date) ==
  {u \in {<<0, 0>>, <<3, 2>>} :
     \A r \in Conflicting(t, key, date) :
       r.token_input + u[1] <= MaxTokens /\ r.token_output + u[2] <= MaxTokens}

\* Tables the requests start from: empty, a day one below its ceiling, a day
\* at its ceiling next to another identity's row.
TableSeeds ==
  { {},
    {UsageRow(1, "key_a", Today, DAILY_LIMIT - 1, 0, 0)},
    {UsageRow(1, "key_a", Today, DAILY_LIMIT, 3, 2),
     UsageRow(2, "key_b", Today - 1, 1, 0, 0)} }

InitTable ==
  /\ LimiterIdle
  /\ WriterIdle
  /\ AuthIdle
  /\ TrackIdle
  /\ LicIdle
  /\ OAuthIdle
  /\ NetIdle
  /\ rows \in TableSeeds
  /\ nextId = Cardinality(rows) + 1
  /\ tpc = [w \in Workers |-> "idle"]
  /\ tReq = [w \in Workers |-> [license_key |-> "", date |-> 0]]
  /\ uniqueErrors = 0
  /\ tCalls = 0

\* The router calls checkRateLimit(request.licenseKey, env) for a request.
TableRequest(w) ==
  /\ tpc[w] = "idle"
  /\ tCalls < MaxTableCalls
  /\ tCalls' = tCalls + 1
  /\ \E k \in Identities, d \in TableDates :
       tReq' = [tReq EXCEPT ![w] = [license_key |-> k, date |-> d]]
  /\ tpc' = [tpc EXCEPT ![w] = "monthly"]
  /\ UNCHANGED <<rows, nextId, uniqueErrors>>
  /\ UNCHANGED <<limiterVars, writerVars, authVars, trackVars, licVars,
                 oauthVars, netVars>>

\* The SUM query answers: a monthly denial returns, anything else goes on.
TableMonthlyRead(w) ==
  /\ tpc[w] = "monthly"
  /\ LET total == RowSumOrNull(rows, tReq[w].license_key,
                               MonthStart(tReq[w].date)) IN
     tpc' = [tpc EXCEPT ![w] = IF MonthlyLimitReached(total)
                               THEN "idle" ELSE "upsert"]
  /\ UNCHANGED <<rows, nextId, tReq, uniqueErrors, tCalls>>
  /\ UNCHANGED <<limiterVars, writerVars, authVars, trackVars, licVars,
                 oauthVars, netVars>>

\* The upsert of checkRateLimit answers; an error goes to the catch, which
\* allows the request.
TableCheckUpsert(w) ==
  /\ tpc[w] = "upsert"
  /\ LET r == UpsertCount(rows, nextId, tReq[w].license_key, tReq[w].date,
                          DAILY_LIMIT) IN
     /\ rows' = r.rows
     /\ nextId' = r.nextId
     /\ uniqueErrors' = IF r.error THEN uniqueErrors + 1 ELSE uniqueErrors
     /\ tpc' = [tpc EXCEPT ![w] = IF ~r.error /\ r.changes = 0
                                  THEN "idle" ELSE "handler"]
  /\ UNCHANGED <<tReq, tCalls>>
  /\ UNCHANGED <<limiterVars, writerVars, authVars, trackVars, licVars,
                 oauthVars, netVars>>

\* The upsert of trackTokenUsage answers; an error is swallowed.
TableTrackUpsert(w) ==
  /\ tpc[w] = "handler"
  /\ \E u \in RowTokenUsages(rows, tReq[w].license_key, tReq[w].date) :
       LET r == UpsertTokens(rows, nextId, tReq[w].license_key, tReq[w].date,
                             u[1], u[2]) IN
       /\ rows' = r.rows
       /\ nextId' = r.nextId
       /\ uniqueErrors' = IF r.error THEN uniqueErrors + 1 ELSE uniqueErrors
  /\ tpc' = [tpc EXCEPT ![w] = "idle"]
  /\ UNCHANGED <<tReq, tCalls>>
  /\ UNCHANGED <<limiterVars, writerVars, authVars, trackVars, licVars,
                 oauthVars, netVars>>

\* The handler returns before trackTokenUsage, or a store call throws: the
\* catch of checkRateLimit allows the request, that of trackTokenUsage
\* swallows the error.
TableNoWrite(w) ==
  /\ tpc[w] \in {"monthly", "upsert", "handler"}
  /\ tpc' = [tpc EXCEPT ![w] = IF tpc[w] = "handler" THEN "idle" ELSE "handler"]
  /\ UNCHANGED <<rows, nextId, tReq, uniqueErrors, tCalls>>
  /\ UNCHANGED <<limiterVars, writerVars, authVars, trackVars, licVars,
                 oauthVars, netVars>>

NextTable ==
  \E w \in Workers :
    \/ TableRequest(w)
    \/ TableMonthlyRead(w)
    \/ TableCheckUpsert(w)
    \/ TableTrackUpsert(w)
    \/ TableNoWrite(w)

SpecTable == InitTable /\ [][NextTable]_vars

UniquePerIdentityDate ==
  \A r1, r2 \in rows :
    (r1.license_key = r2.license_key /\ r1.date = r2.date) => r1 = r2

\* Every row stays, under its id, for its (identity, date); a new row is for
\* a pair that had none.
InPlace ==
  /\ \A r \in rows : \E r2 \in rows' :
       r2.id = r.id /\ r2.license_key = r.license_key /\ r2.date = r.date
  /\ \A r2 \in rows' :
       (\A r \in rows : r.id # r2.id) =>
         Conflicting(rows, r2.license_key, r2.date) = {}

\* C23: after any interleaving of rate-limit checks and token-accounting
\* writes for any identities and days the usage table holds at most one row
\* per (identity, date): the first operation of a day creates the row, every
\* later one updates that row in place, and no statement fails on
\* UNIQUE(license_key, date), concurrent first operations included.
C23_OneRecordPerIdentityDate ==
  /\ [](UniquePerIdentityDate /\ uniqueErrors = 0)
  /\ [][InPlace]_vars

\* Two requests of one identity and day are both past their check on a table
\* that started empty: one row, counted twice.
C23_Witness ==
  /\ tpc = [w \in Workers |-> "handler"]
  /\ tReq[1] = tReq[2]
  /\ nextId = 2
  /\ \E r \in rows : r.id = 1 /\ r.analysis_count = 2
  /\ Cardinality(rows) = 1

\* ------------------------------------------------------- backoff delays
\* The backoff sleep under way is the one of retry number attempt.
InBackoffRange ==
  wpc = "backoff" =>
    /\ attempt < MAX_RETRIES
    /\ sleeps = attempt + 1
    /\ BASE_DELAYS_MS[attempt + 1] <= delay
    /\ delay < BASE_DELAYS_MS[attempt + 1] + JITTER_RANGES_MS[attempt + 1]

\* The delay range of one retry ends before the next one's begins.
RangesIncrease ==
  \A k \in 1..(MAX_RETRIES - 1) :
    BASE_DELAYS_MS[k] + JITTER_RANGES_MS[k] <= BASE_DELAYS_MS[k + 1]

\* A step that issues a fetch for an item that already had one.
RetryStep == wpc' = "inflight" /\ fetches' = fetches + 1 /\ fetches >= 1

\* A step that begins a backoff sleep.
SleepStep == wpc' = "backoff" /\ wpc # "backoff"

\* C24: every retry of an item is preceded by a backoff sleep: before retry
\* number k (k = 0, 1, 2) the writer waits base[k] <= d < base[k] + jitter[k]
\* with base = (500, 1000, 2000) and jitter = (200, 400, 800), ranges that
\* increase without overlapping; no retry is issued without a sleep and no
\* sleep is taken after the final failed attempt.
C24_BackoffBeforeEveryRetry ==
  /\ [](InBackoffRange /\ RangesIncrease /\ sleeps <= MAX_RETRIES)
  /\ [][/\ RetryStep => (wpc = "backoff" /\ delay > 0 /\ sleeps = attempt + 1)
        /\ SleepStep => (wpc = "inflight" /\ attempt < MAX_RETRIES)]_vars

\* An item failed on its fourth attempt after three sleeps.
C24_Witness ==
  /\ wpc = "next"
  /\ RecordedFailed
  /\ fetches = MAX_RETRIES + 1
  /\ sleeps = MAX_RETRIES
  /\ IsRetryable(lastStatus)

\* -------------------------------------------------------------- timeouts
\* C25: every outbound call to the LLM or the Notion API is bounded by an
\* explicit timeout: a fetch of the writer that is in flight has an abort
\* timer, so that a call that does not answer ends as a failure at the call
\* site instead of waiting, and without another attempt of the retry loop.
C25_EveryCallHasTimeout == WriteInFlight => signal # NULL

\* ------------------------------------------------------------ activation
\* schema.sql: licenses(key TEXT PRIMARY KEY, status IN ('unused', 'active',
\* 'revoked'), user_notion_id, activated_at, created_at).
MaxActivations == 3

LicenseRow(key, status, user, at) ==
  [key |-> key, status |-> status, user_notion_id |-> user,
   activated_at |-> at]

\* The row of a key, as a set: empty when the key has none.
LicenseOf(t, key) == {r \in t : r.key = key}

\* SELECT key, status, activated_at FROM licenses WHERE key = ?
SelectStatus(t, key) ==
  IF LicenseOf(t, key) = {} THEN "NULL"
  ELSE (CHOOSE r \in LicenseOf(t, key) : TRUE).status

\* An UPDATE that leaves out the status condition.
UpdateAnyStatus(t, key, now) ==
  (t \ LicenseOf(t, key)) \cup
    {LicenseRow(r.key, "active", r.user_notion_id, now) : r \in LicenseOf(t, key)}

\* UPDATE licenses SET status = 'active', activated_at = ?
\* WHERE key = ? AND status = 'unused'
UpdateWhereUnused(t, key, now) ==
  LET hit == {r \in LicenseOf(t, key) : r.status = "unused"} IN
  (t \ hit) \cup {LicenseRow(r.key, "active", r.user_notion_id, now) : r \in hit}

LowerCase ==
  <<"a", "b", "c", "d", "e", "f", "g", "h", "i", "j", "k", "l", "m", "n",
    "o", "p", "q", "r", "s", "t", "u", "v", "w", "x", "y", "z">>

UpperCaseLetters ==
  <<"A", "B", "C", "D", "E", "F", "G", "H", "I", "J", "K", "L", "M", "N",
    "O", "P", "Q", "R", "S", "T", "U", "V", "W", "X", "Y", "Z">>

\* key.toUpperCase()
toUpperCase(key) ==
  [k \in 1..Len(key) |->
     IF key[k] \in Range(LowerCase)
     THEN UpperCaseLetters[IndexOf(LowerCase, key[k])] ELSE key[k]]

\* key.trim()
RECURSIVE trim(_)
trim(key) ==
  IF key = <<>> THEN key
  ELSE IF Head(key) = " " THEN trim(Tail(key))
  ELSE IF key[Len(key)] = " " THEN trim(SubSeq(key, 1, Len(key) - 1))
  ELSE key

\* A key as a user types it: lower case, a blank in front.
KeyUnusedTyped == <<" ">> \o KeyOf(<<"e", "f", "g", "h">>)

\* Bodies of POST /api/license/activate: unparseable, or JSON with a key.
ActivationKeys ==
  {KeyAbsent, KeyShort, KeyUnknown, KeyUnused, KeyUnusedTyped, KeyActive,
   KeyRevoked}

\* The licenses table the requests start from.
StoredLicenses ==
  {LicenseRow(k, LicenseStatus(k), "", IF LicenseStatus(k) = "active" THEN 0 ELSE NULL) :
     k \in {KeyActive, KeyUnused, KeyRevoked}}

Respond(code, status) == [status |-> status, body |-> code]

InitActivate ==
  /\ LimiterIdle
  /\ WriterIdle
  /\ AuthIdle
  /\ TrackIdle
  /\ TableIdle
  /\ OAuthIdle
  /\ NetIdle
  /\ licenses = StoredLicenses
  /\ lpc = [w \in Workers |-> "idle"]
  /\ lReq = [w \in Workers |-> NoActivation]
  /\ lResp = [w \in Workers |-> NoResponse]
  /\ lClock = 1
  /\ lCalls = 0

\* activateLicense up to its first store call.
activateLicenseReceive(w) ==
  /\ lpc[w] = "idle"
  /\ lCalls < MaxActivations
  /\ lCalls' = lCalls + 1
  /\ \E j \in BOOLEAN, key \in ActivationKeys :
       LET trimmedKey == toUpperCase(trim(key)) IN
       /\ lReq' = [lReq EXCEPT ![w] = [json |-> j, key |-> key,
                                       bound |-> trimmedKey]]
       /\ IF ~j
          THEN /\ lResp' = [lResp EXCEPT ![w] = Respond("INVALID_JSON", 400)]
               /\ UNCHANGED lpc
          ELSE IF key = KeyAbsent
          THEN /\ lResp' = [lResp EXCEPT ![w] = Respond("MISSING_FIELD", 400)]
               /\ UNCHANGED lpc
          ELSE IF ~isValidKeyFormat(trimmedKey)
          THEN /\ lResp' = [lResp EXCEPT ![w] =
                              Respond("INVALID_KEY_FORMAT", 400)]
               /\ UNCHANGED lpc
          ELSE /\ lResp' = [lResp EXCEPT ![w] = NoResponse]
               /\ lpc' = [lpc EXCEPT ![w] = "select"]
  /\ UNCHANGED <<licenses, lClock>>
  /\ UNCHANGED <<limiterVars, writerVars, authVars, trackVars, tableVars,
                 oauthVars, netVars>>

\* The SELECT answers: the three rejections, or on to the UPDATE.
activateLicenseSelect(w) ==
  /\ lpc[w] = "select"
  /\ LET st == SelectStatus(licenses, lReq[w].bound) IN
     IF st = "NULL"
     THEN /\ lResp' = [lResp EXCEPT ![w] = Respond("KEY_NOT_FOUND", 404)]
          /\ lpc' = [lpc EXCEPT ![w] = "idle"]
     ELSE IF st = "active"
     THEN /\ lResp' = [lResp EXCEPT ![w] = Respond("KEY_ALREADY_ACTIVE", 409)]
          /\ lpc' = [lpc EXCEPT ![w] = "idle"]
     ELSE IF st = "revoked"
     THEN /\ lResp' = [lResp EXCEPT ![w] = Respond("KEY_REVOKED", 403)]
          /\ lpc' = [lpc EXCEPT ![w] = "idle"]
     ELSE /\ lpc' = [lpc EXCEPT ![w] = "update"]
          /\ UNCHANGED lResp
  /\ UNCHANGED <<licenses, lReq, lClock, lCalls>>
  /\ UNCHANGED <<limiterVars, writerVars, authVars, trackVars, tableVars,
                 oauthVars, netVars>>

\* The UPDATE runs.
activateLicenseUpdate(w) ==
  /\ lpc[w] = "update"
  /\ licenses' = UpdateWhereUnused(licenses, lReq[w].bound, lClock)
  /\ lClock' = lClock + 1
  /\ lpc' = [lpc EXCEPT ![w] = "reread"]
  /\ UNCHANGED <<lReq, lResp, lCalls>>
  /\ UNCHANGED <<limiterVars, writerVars, authVars, trackVars, tableVars,
                 oauthVars, netVars>>

\* The second SELECT answers: if (!updated || updated.status !== 'active')
activateLicenseReread(w) ==
  /\ lpc[w] = "reread"
  /\ lResp' = [lResp EXCEPT ![w] =
                 IF SelectStatus(licenses, lReq[w].bound) # "active"
                 THEN Respond("ACTIVATION_FAILED", 500)
                 ELSE Respond("active", 200)]
  /\ lpc' = [lpc EXCEPT ![w] = "idle"]
  /\ UNCHANGED <<licenses, lReq, lClock, lCalls>>
  /\ UNCHANGED <<limiterVars, writerVars, authVars, trackVars, tableVars,
                 oauthVars, netVars>>

\* catch (err): a store call threw.
activateLicenseThrows(w) ==
  /\ lpc[w] \in {"select", "update", "reread"}
  /\ lResp' = [lResp EXCEPT ![w] = Respond("DB_ERROR", 500)]
  /\ lpc' = [lpc EXCEPT ![w] = "idle"]
  /\ UNCHANGED <<licenses, lReq, lClock, lCalls>>
  /\ UNCHANGED <<limiterVars, writerVars, authVars, trackVars, tableVars,
                 oauthVars, netVars>>

\* A key is revoked by hand in the store (no route of the worker does it);
\* at most one more key than the table started with.
RevokedOutOfBand ==
  /\ Cardinality({r \in licenses : r.status = "revoked"}) < 2
  /\ \E r \in licenses :
       /\ r.status # "revoked"
       /\ licenses' = (licenses \ {r}) \cup
                        {[r EXCEPT !.status = "revoked"]}
  /\ UNCHANGED <<lpc, lReq, lResp, lClock, lCalls>>
  /\ UNCHANGED <<limiterVars, writerVars, authVars, trackVars, tableVars,
                 oauthVars, netVars>>

NextActivate ==
  \/ RevokedOutOfBand
  \/ \E w \in Workers :
       \/ activateLicenseReceive(w)
       \/ activateLicenseSelect(w)
       \/ activateLicenseUpdate(w)
       \/ activateLicenseReread(w)
       \/ activateLicenseThrows(w)

SpecActivate == InitActivate /\ [][NextActivate]_vars

\* --------------------------------------------- generation 1: handleActivate
\* Keys of 16 characters, as the first schema's routes take them.
RawKey(g) == g \o g \o g \o g

RawActive == RawKey(<<"a", "b", "c", "d">>)
RawUnused == RawKey(<<"e", "f", "g", "h">>)
RawRevoked == RawKey(<<"2", "3", "4", "5">>)
RawUnknown == RawKey(<<"w", "x", "y", "z">>)

RawActivationKeys ==
  {KeyAbsent, KeyUnused, RawUnknown, RawUnused, RawActive, RawRevoked}

RawStoredLicenses ==
  {LicenseRow(RawActive, "active", "user-0", 0),
   LicenseRow(RawUnused, "unused", "", NULL),
   LicenseRow(RawRevoked, "revoked", "", NULL)}

\* UPDATE licenses SET status = 'active', user_notion_id = ?,
\* activated_at = CURRENT_TIMESTAMP WHERE key = ? AND status = 'unused'
UpdateUnusedWithUser(t, key, user, now) ==
  LET hit == {r \in LicenseOf(t, key) : r.status = "unused"} IN
  (t \ hit) \cup {LicenseRow(r.key, "active", user, now) : r \in hit}

InitHandleActivate ==
  /\ LimiterIdle
  /\ WriterIdle
  /\ AuthIdle
  /\ TrackIdle
  /\ TableIdle
  /\ OAuthIdle
  /\ NetIdle
  /\ licenses = RawStoredLicenses
  /\ lpc = [w \in Workers |-> "idle"]
  /\ lReq = [w \in Workers |-> NoActivation]
  /\ lResp = [w \in Workers |-> NoResponse]
  /\ lClock = 1
  /\ lCalls = 0

\* handleActivate up to its first store call.
handleActivateReceive(w) ==
  /\ lpc[w] = "idle"
  /\ lCalls < MaxActivations
  /\ lCalls' = lCalls + 1
  /\ \E j \in BOOLEAN, key \in RawActivationKeys :
       /\ lReq' = [lReq EXCEPT ![w] = [json |-> j, key |-> key, bound |-> key]]
       /\ IF ~j
          THEN /\ lResp' = [lResp EXCEPT ![w] = Respond("INVALID_JSON", 400)]
               /\ UNCHANGED lpc
          ELSE IF key = KeyAbsent \/ Len(key) # 16
          THEN /\ lResp' = [lResp EXCEPT ![w] =
                              Respond("INVALID_KEY_FORMAT", 400)]
               /\ UNCHANGED lpc
          ELSE /\ lResp' = [lResp EXCEPT ![w] = NoResponse]
               /\ lpc' = [lpc EXCEPT ![w] = "select"]
  /\ UNCHANGED <<licenses, lClock>>
  /\ UNCHANGED <<limiterVars, writerVars, authVars, trackVars, tableVars,
                 oauthVars, netVars>>

\* The UPDATE runs and the handler answers success.
handleActivateUpdate(w) ==
  /\ lpc[w] = "update"
  /\ \E user \in {"", "user-1"} :
       licenses' = UpdateUnusedWithUser(licenses, lReq[w].bound, user, lClock)
  /\ lClock' = lClock + 1
  /\ lResp' = [lResp EXCEPT ![w] = Respond("active", 200)]
  /\ lpc' = [lpc EXCEPT ![w] = "idle"]
  /\ UNCHANGED <<lReq, lCalls>>
  /\ UNCHANGED <<limiterVars, writerVars, authVars, trackVars, tableVars,
                 oauthVars, netVars>>

\* catch: a store call threw.
handleActivateThrows(w) ==
  /\ lpc[w] \in {"select", "update"}
  /\ lResp' = [lResp EXCEPT ![w] = Respond("ACTIVATION_FAILED", 500)]
  /\ lpc' = [lpc EXCEPT ![w] = "idle"]
  /\ UNCHANGED <<licenses, lReq, lClock, lCalls>>
  /\ UNCHANGED <<limiterVars, writerVars, authVars, trackVars, tableVars,
                 oauthVars, netVars>>

\* The SELECT of handleActivate branches as that of activateLicense does.
NextHandleActivate ==
  \/ RevokedOutOfBand
  \/ \E w \in Workers :
       \/ handleActivateReceive(w)
       \/ activateLicenseSelect(w)
       \/ handleActivateUpdate(w)
       \/ handleActivateThrows(w)

SpecHandleActivate == InitHandleActivate /\ [][NextHandleActivate]_vars

\* The SELECT of worker w's activation answers in this step.
SelectAnswers(w) ==
  lpc[w] = "select" /\ lpc'[w] # "select" /\ lResp'[w].status # 500

\* Worker w's UPDATE runs in this step, for the key of row r.
ActivatedBy(w, r) ==
  /\ lpc[w] = "update"
  /\ lpc'[w] # "update"
  /\ lReq[w].bound = r.key
  /\ \E r2 \in licenses' :
       /\ r2.key = r.key
       /\ r2.status = "active"
       /\ r2.activated_at = lClock

\* C26: a license's status changes only from "unused" to "active" and only
\* through activation: an activate request for a key that is "active" is
\* rejected with KEY_ALREADY_ACTIVE (409), for a "revoked" key with
\* KEY_REVOKED (403), for an unknown key with KEY_NOT_FOUND (404), each time
\* with the licenses table left as it is; a revoked key never becomes active.
\* (The one other change of a row is its revocation by hand in the store.)
C26_OnlyUnusedToActive ==
  [][/\ \A w \in Workers :
          SelectAnswers(w) =>
            LET st == SelectStatus(licenses, lReq[w].bound) IN
            /\ st = "active" =>
                 (lResp'[w] = Respond("KEY_ALREADY_ACTIVE", 409) /\ licenses' = licenses)
            /\ st = "revoked" =>
                 (lResp'[w] = Respond("KEY_REVOKED", 403) /\ licenses' = licenses)
            /\ st = "NULL" =>
                 (lResp'[w] = Respond("KEY_NOT_FOUND", 404) /\ licenses' = licenses)
            /\ st # "unused" => lpc'[w] = "idle"
     /\ {r.key : r \in licenses'} = {r.key : r \in licenses}
     /\ Cardinality(licenses') = Cardinality(licenses)
     /\ \A r \in licenses :
          \/ r \in licenses'
          \/ r.status = "unused" /\ \E w \in Workers : ActivatedBy(w, r)
          \/ /\ lpc' = lpc
             /\ r.status # "revoked"
             /\ [r EXCEPT !.status = "revoked"] \in licenses'
     /\ \A r \in licenses : r.status = "revoked" => r \in licenses']_vars

\* One request activated the key as typed; a later one for the same key is
\* rejected as already active, the row keeping the first one's timestamp.
C26_Witness ==
  \E w1, w2 \in Workers :
    /\ lReq[w1].key = KeyUnusedTyped
    /\ lResp[w1] = Respond("active", 200)
    /\ lReq[w2].key = KeyUnused
    /\ lResp[w2] = Respond("KEY_ALREADY_ACTIVE", 409)
    /\ LicenseRow(KeyUnused, "active", "", 1) \in licenses
    /\ lpc = [w \in Workers |-> "idle"]

\* C30: activation is race-free: of the concurrent activation requests for
\* one "unused" key at most one receives a success response; every other
\* one receives an error.
C30_AtMostOneSuccess ==
  \A w1, w2 \in Workers :
    (w1 # w2 /\ lResp[w1].status = 200 /\ lResp[w2].status = 200) =>
      lReq[w1].bound # lReq[w2].bound

\* ------------------------------------------------------ OAuth state tokens
\* schema.sql: oauth_states(state TEXT PRIMARY KEY, license_key, created_at);
\* notion_connections(license_key TEXT PRIMARY KEY, access_token, ...).
MaxOAuthCalls == 4

\* A state no handleAuth has stored.
UNKNOWN_STATE == 0

StateRow(state, key, old) == [state |-> state, license_key |-> key, old |-> old]

\* SELECT license_key FROM oauth_states WHERE state = ?
StateRows(t, state) == {r \in t : r.state = state}

\* INSERT INTO notion_connections (...) VALUES (...)
\* ON CONFLICT(license_key) DO UPDATE SET access_token = excluded.access_token
UpsertConnection(t, key, token) ==
  {r \in t : r.license_key # key} \cup
    {[license_key |-> key, access_token |-> token]}

\* The exchanges made with a state token.
ExchangesOf(state) ==
  {k \in 1..Len(exchanges) : exchanges[k].state = state}

InitOAuth ==
  /\ LimiterIdle
  /\ WriterIdle
  /\ AuthIdle
  /\ TrackIdle
  /\ TableIdle
  /\ LicIdle
  /\ NetIdle
  /\ oauth_states = {}
  /\ notion_connections = {}
  /\ opc = [w \in Workers |-> "idle"]
  /\ oReq = [w \in Workers |-> NoCallback]
  /\ oKey = [w \in Workers |-> ""]
  /\ oResp = [w \in Workers |-> "none"]
  /\ exchanges = <<>>
  /\ oCalls = 0

\* GET /notion/auth: crypto.randomUUID() is a state no request had before
\* (the serial of the request); the INSERT stores it, or throws.
handleAuth(w) ==
  /\ opc[w] = "idle"
  /\ oCalls < MaxOAuthCalls
  /\ oCalls' = oCalls + 1
  /\ \E key \in Identities :
       \/ /\ oauth_states' = oauth_states \cup {StateRow(oCalls + 1, key, FALSE)}
          /\ oResp' = [oResp EXCEPT ![w] = "url"]
       \/ /\ oResp' = [oResp EXCEPT ![w] = "STATE_CREATION_FAILED"]
          /\ UNCHANGED oauth_states
  /\ oReq' = [oReq EXCEPT ![w] = NoCallback]
  /\ oKey' = [oKey EXCEPT ![w] = ""]
  /\ UNCHANGED <<notion_connections, opc, exchanges>>
  /\ UNCHANGED <<limiterVars, writerVars, authVars, trackVars, tableVars,
                 licVars, netVars>>

\* Ten minutes pass: the stored states are older than the cleanup's limit.
StatesExpire ==
  /\ \E r \in oauth_states : ~r.old
  /\ oauth_states' = {[r EXCEPT !.old = TRUE] : r \in oauth_states}
  /\ UNCHANGED <<notion_connections, opc, oReq, oKey, oResp, exchanges, oCalls>>
  /\ UNCHANGED <<limiterVars, writerVars, authVars, trackVars, tableVars,
                 licVars, netVars>>

\* GET /notion/callback up to its first store call.
handleOAuthCallbackReceive(w) ==
  /\ opc[w] = "idle"
  /\ oCalls < MaxOAuthCalls
  /\ oCalls' = oCalls + 1
  /\ \E error \in {"", "access_denied"}, code \in {"", "c1", "c2"},
        state \in {NULL, UNKNOWN_STATE} \cup 1..oCalls :
       /\ oReq' = [oReq EXCEPT ![w] = [code |-> code, state |-> state,
                                       error |-> error]]
       /\ IF error # ""
          THEN /\ oResp' = [oResp EXCEPT ![w] = "Authorization was denied"]
               /\ UNCHANGED opc
          ELSE IF code = ""
          THEN /\ oResp' = [oResp EXCEPT ![w] = "MISSING_CODE"]
               /\ UNCHANGED opc
          ELSE IF state = NULL
          THEN /\ oResp' = [oResp EXCEPT ![w] = "Could not verify your identity"]
               /\ UNCHANGED opc
          ELSE /\ oResp' = [oResp EXCEPT ![w] = "none"]
               /\ opc' = [opc EXCEPT ![w] = "select"]
  /\ oKey' = [oKey EXCEPT ![w] = ""]
  /\ UNCHANGED <<oauth_states, notion_connections, exchanges>>
  /\ UNCHANGED <<limiterVars, writerVars, authVars, trackVars, tableVars,
                 licVars, netVars>>

\* The SELECT answers: if (!stateRow) return; licenseKey = stateRow.license_key
handleOAuthCallbackSelect(w) ==
  /\ opc[w] = "select"
  /\ IF StateRows(oauth_states, oReq[w].state) = {}
     THEN /\ oResp' = [oResp EXCEPT ![w] = "Invalid authorization state"]
          /\ opc' = [opc EXCEPT ![w] = "idle"]
          /\ UNCHANGED oKey
     ELSE /\ oKey' = [oKey EXCEPT ![w] =
                        (CHOOSE r \in StateRows(oauth_states, oReq[w].state) :
                           TRUE).license_key]
          /\ opc' = [opc EXCEPT ![w] = "delete"]
          /\ UNCHANGED oResp
  /\ UNCHANGED <<oauth_states, notion_connections, oReq, exchanges, oCalls>>
  /\ UNCHANGED <<limiterVars, writerVars, authVars, trackVars, tableVars,
                 licVars, netVars>>

\* DELETE FROM oauth_states WHERE state = ?
handleOAuthCallbackDelete(w) ==
  /\ opc[w] = "delete"
  /\ oauth_states' = oauth_states \ StateRows(oauth_states, oReq[w].state)
  /\ opc' = [opc EXCEPT ![w] = "cleanup"]
  /\ UNCHANGED <<notion_connections, oReq, oKey, oResp, exchanges, oCalls>>
  /\ UNCHANGED <<limiterVars, writerVars, authVars, trackVars, tableVars,
                 licVars, netVars>>

\* DELETE FROM oauth_states WHERE created_at < datetime('now', '-10 minutes')
handleOAuthCallbackCleanup(w) ==
  /\ opc[w] = "cleanup"
  /\ oauth_states' = {r \in oauth_states : ~r.old}
  /\ opc' = [opc EXCEPT ![w] = "exchange"]
  /\ UNCHANGED <<notion_connections, oReq, oKey, oResp, exchanges, oCalls>>
  /\ UNCHANGED <<limiterVars, writerVars, authVars, trackVars, tableVars,
                 licVars, netVars>>

\* catch: one of the three statements threw.
handleOAuthCallbackThrows(w) ==
  /\ opc[w] \in {"select", "delete", "cleanup"}
  /\ oResp' = [oResp EXCEPT ![w] = "Authorization verification failed"]
  /\ opc' = [opc EXCEPT ![w] = "idle"]
  /\ UNCHANGED <<oauth_states, notion_connections, oReq, oKey, exchanges, oCalls>>
  /\ UNCHANGED <<limiterVars, writerVars, authVars, trackVars, tableVars,
                 licVars, netVars>>

\* fetch('https://api.notion.com/v1/oauth/token', ...) with the code: the
\* answer is ok, or not ok, or the fetch throws.
handleOAuthCallbackExchange(w) ==
  /\ opc[w] = "exchange"
  /\ exchanges' = Append(exchanges, [state |-> oReq[w].state,
                                     code |-> oReq[w].code])
  /\ \/ /\ opc' = [opc EXCEPT ![w] = "store"]
        /\ UNCHANGED oResp
     \/ /\ opc' = [opc EXCEPT ![w] = "idle"]
        /\ \E msg \in {"Notion authorization failed", "An error occurred"} :
             oResp' = [oResp EXCEPT ![w] = msg]
  /\ UNCHANGED <<oauth_states, notion_connections, oReq, oKey, oCalls>>
  /\ UNCHANGED <<limiterVars, writerVars, authVars, trackVars, tableVars,
                 licVars, netVars>>

\* The upsert of the connection runs, or throws.
handleOAuthCallbackStore(w) ==
  /\ opc[w] = "store"
  /\ \/ /\ notion_connections' =
             UpsertConnection(notion_connections, oKey[w], oReq[w].code)
        /\ oResp' = [oResp EXCEPT ![w] = "Notion connected successfully"]
     \/ /\ oResp' = [oResp EXCEPT ![w] = "An error occurred"]
        /\ UNCHANGED notion_connections
  /\ opc' = [opc EXCEPT ![w] = "idle"]
  /\ UNCHANGED <<oauth_states, oReq, oKey, exchanges, oCalls>>
  /\ UNCHANGED <<limiterVars, writerVars, authVars, trackVars, tableVars,
                 licVars, netVars>>

NextOAuth ==
  \/ StatesExpire
  \/ \E w \in Workers :
       \/ handleAuth(w)
       \/ handleOAuthCallbackReceive(w)
       \/ handleOAuthCallbackSelect(w)
       \/ handleOAuthCallbackDelete(w)
       \/ handleOAuthCallbackCleanup(w)
       \/ handleOAuthCallbackThrows(w)
       \/ handleOAuthCallbackExchange(w)
       \/ handleOAuthCallbackStore(w)

SpecOAuth == InitOAuth /\ [][NextOAuth]_vars

\* C27: OAuth state tokens are single-use: across any sequence or
\* interleaving of callback requests at most one callback carrying a given
\* state token goes on to exchange the code and store a connection.
C27_StateTokenSingleUse ==
  \A k \in 1..Len(exchanges) : Cardinality(ExchangesOf(exchanges[k].state)) <= 1

\* -------------------------------------------------- the increment persists
\* The month's total after the step.
MonthTotalNext == SumCoalesce(usage', MonthStart(Today))

\* Worker w's check returns allowed in this step and its handler is next.
AllowedStep(w) ==
  pc[w] \in {"monthly", "upsert"} /\ pc'[w] = "handler" /\ result'[w] = "allowed"

\* C28 as stated: an allowed rate-limit check on a /claude/ route increments
\* the identity's daily count by exactly 1 before the route handler runs.
C28_AllowedCheckIncrements ==
  [][\A w \in Workers : AllowedStep(w) => TodayCount' = TodayCount + 1]_vars

\* C28: a rate-limit check that the store answered and that returned allowed
\* has incremented the daily count, and with it the month's total, by exactly
\* 1 before the route handler runs; a check allowed by the fail-open catch
\* leaves the table as it is.  The handler starts only after an allowed
\* check, and no later step undoes an increment: the count is the same after
\* the handler returned early (unknown path, wrong method, invalid JSON, empty
\* or oversized input, LLM failure or timeout) or wrote its token usage.
C28_IncrementPersists ==
  [][/\ \A w \in Workers :
          /\ (AllowedStep(w) /\ ~threw'[w]) =>
               /\ changes'[w] = 1
               /\ TodayCount' = TodayCount + 1
               /\ MonthTotalNext = MonthTotal + 1
          /\ (AllowedStep(w) /\ threw'[w]) => usage' = usage
          /\ (pc'[w] = "handler" /\ pc[w] # "handler") => AllowedStep(w)
          /\ (pc[w] = "handler" /\ pc'[w] # "handler") =>
               (TodayCount' = TodayCount /\ MonthTotalNext = MonthTotal)
     /\ TodayCount' >= TodayCount
     /\ MonthTotalNext >= MonthTotal]_vars

\* A request was counted, its handler wrote token usage and returned, and
\* the day is at its ceiling with every increment still in the row.
C28_Witness ==
  \E w \in Workers :
    /\ result[w] = "allowed"
    /\ changes[w] = 1
    /\ ~threw[w]
    /\ pc[w] = "idle"
    /\ usage[Today].present
    /\ usage[Today].token_input > 0
    /\ TodayCount = DAILY_LIMIT

\* ------------------------------------------------- the optional signature
\* The request passes verifyRequest's identity, timestamp and store checks.
PassesEarlierChecks ==
  /\ req.key # <<>>
  /\ req.ts \notin {TS_ABSENT, TS_EMPTY}
  /\ ~TimestampExpired(req.ts, Now)
  /\ (env.DB /\ ~storeThrew) => LicenseStatus(req.key) \notin {"NULL", "revoked"}

\* C29: the signature check runs only when both an X-Signature header and a
\* server-side signing secret are present: a request without a signature that
\* passes the identity, timestamp and store checks is accepted whether or not
\* a secret is configured, and a request with any signature is accepted
\* without verification when no secret is configured.
C29_SignatureOptional ==
  /\ (apc = "done" /\ PassesEarlierChecks) =>
       /\ req.sig = <<>> => (verdict = "valid" /\ xorSteps = 0)
       /\ env.LICENSE_SIGNING_SECRET = <<>> => (verdict = "valid" /\ xorSteps = 0)
  /\ (verdict = "INVALID_SIGNATURE" \/ xorSteps > 0) =>
       (req.sig # <<>> /\ env.LICENSE_SIGNING_SECRET # <<>>)

\* An unsigned request is accepted by a worker that has a signing secret.
C29_Witness ==
  /\ apc = "done"
  /\ PassesEarlierChecks
  /\ req.sig = <<>>
  /\ env.LICENSE_SIGNING_SECRET = ServerSecret
  /\ env.DB /\ ~storeThrew
  /\ verdict = "valid"

====
